---------------------------- MODULE Spec2Model ----------------------------
(***************************************************************************)
(* A model of the GPS L1 C/A software receiver (cugnss-python): cold-start *)
(* acquisition and channel pre-run, per-channel code/carrier tracking, the *)
(* navigation-word parity check, preamble search (NAVdecoding) and the     *)
(* channel bookkeeping of postNavigation.                                  *)
(*                                                                         *)
(* Units.  Frequencies of the tracking loops are in kHz (so that           *)
(* codeLength * samplingFreq stays inside TLC's integers); the residual    *)
(* code phase is kept as remCodePhase * samplingFreq (chips * kHz) and the *)
(* residual carrier phase as remCarrPhase / (2*pi) * samplingFreq, which   *)
(* makes the block-size and phase updates of tracking.py exact integer     *)
(* arithmetic.  Acquisition frequencies are in Hz, the peak metric in      *)
(* tenths.                                                                 *)
(***************************************************************************)
EXTENDS Integers, Sequences, FiniteSets, TLC

VARIABLES
    settings,       \* the Settings record the stage was called with
    acqpc,          \* acquisition/pre-run: "acq", "prerun", "done"
    acqN,           \* acquisition(): loop index n over acqSatelliteList
    acqResults,     \* acquisition(): the acqResults table, one record per row
    channel,        \* pre_run(): the returned channel list; tracking(): its input
    trkpc,          \* tracking(): "channel", "loop", "eof" (short read), "done"
    fileLen,        \* length of the signal record, bytes
    signal,         \* which signal the record holds (decides the correlator outputs)
    fidPos,         \* fid.tell(), bytes
    channelNr,      \* tracking(): channel being processed, 1-based
    loopCnt,        \* tracking(): millisecond being processed, 0-based
    loc,            \* tracking(): the loop variables of the channel being processed
    trackResults,   \* tracking(): the results, one TrackLog per channel
    written,        \* history: the <<channel, field, k>> entries assigned so far
    ndat,           \* parity check: the 32-element word (D29*, D30*, d1..d24, D25..D30)
    flipped,        \* parity check: position of the bit flipped in ndat, 0 if none
    parpc,          \* parity check: "word" before nav_party_chk ran on ndat, "checked" after
    parityResult,   \* parity check: what nav_party_chk returned for ndat
    nd,             \* NAVdecoding(): its position pc, argument I_P_InputBits, and locals
    pnpc,           \* postNavigation(): "call", "decode", "count", "epochs", "returnNone",
                    \*   "return", or the exception that ended it
    trackNav,       \* postNavigation(): trackResults as it reads them, channel 0..n-1 |->
                    \*   status, PRN and what NAVdecoding makes of the channel's I_P
    activeChnList,  \* postNavigation(): channels still considered for navigation
    decodeList,     \* postNavigation(): rest of the copy activeChnList[:] being iterated
    subFrameStart,  \* postNavigation(): per channel, inf until decoded
    TOW,            \* postNavigation(): per channel, inf until decoded
    eph,            \* postNavigation(): PRN |-> ephemeris fields
    readyChnList,   \* postNavigation(): activeChnList saved before the epochs
    satElev,        \* postNavigation(): elevations used for the mask
    measNrSum,      \* postNavigation(): number of measurement epochs
    fixNr,          \* postNavigation(): epoch loop index i
    navSolutions,   \* postNavigation(): the fixes appended so far
    cp,             \* checkPhase(): the caller's word, D30Star, number of calls made, values returned
    pr,             \* calculate_pseudoranges(): its arguments, loop position and results
    meas,           \* postNavigation(): sampleStart, sampleEnd and step of the measurement points
    ls,             \* least_square_pos(): iteration, pos, A, el, the ranks seen, and what it returned
    det,            \* detect_ca_sat() and its backends: arguments, loop position, index arrays, result
    pp,             \* postProcessing(): position, inputs, the file handle, acqResults, the stages begun and ended
    ep,             \* ephemeris(): the bits, the loop index, the subframe at hand, eph and TOW
    en,             \* the epoch loop of postNavigation() on TrackLogs of a few ms: measurement points, elevations, local time, what each epoch measured
    itr,             \* an iterative routine of the navigation chain: which one, its position, the passes made, the iterate
    fr,             \* the data file as acquisition and tracking read it: positions of the seeks and reads, sample sizes
    uz              \* a call of find_utm_zone: latitude and longitude in half degrees, the outcome

acqVars == <<acqpc, acqN, acqResults>>

trkVars == <<trkpc, fileLen, signal, fidPos, channelNr, loopCnt, loc, trackResults, written>>

parVars == <<ndat, flipped, parpc, parityResult>>

ndVars == <<nd>>

pnVars == <<pnpc, trackNav, activeChnList, decodeList, subFrameStart, TOW, eph,
            readyChnList, satElev, measNrSum, fixNr, navSolutions>>

cpVars == <<cp>>

prVars == <<pr>>

measVars == <<meas>>

lsVars == <<ls>>

detVars == <<det>>

ppVars == <<pp>>

epVars == <<ep>>

enVars == <<en>>

itVars == <<itr>>

frVars == <<fr>>

uzVars == <<uz>>

vars == <<settings, channel, acqVars, trkVars, parVars, ndVars, pnVars, cpVars, prVars, measVars, lsVars, detVars, ppVars, epVars, enVars, itVars, frVars, uzVars>>

----------------------------------------------------------------------------
(* Small helpers *)

Min(a, b) == IF a <= b THEN a ELSE b

Max(a, b) == IF a >= b THEN a ELSE b

Range(s) == {s[i] : i \in DOMAIN s}

\* ceil(a / b) for b > 0
CeilDiv(a, b) == -((-a) \div b)

----------------------------------------------------------------------------
(* Settings (init_settings.py) *)

codeLength == 1023

\* codeFreqBasis, kHz
codeFreqBasis == 1023

\* samplingFreq, kHz
samplingFreq == 18000

\* acqSearchBand, Hz
acqSearchBand == 7000

\* acqSearchStep, Hz
acqSearchStep == 500

\* acqThreshold (3.5), in tenths
acqThreshold == 35

DefaultSettings ==
    [ msToProcess       |-> 0,
      numberOfChannels  |-> 1,
      skipNumberOfBytes |-> 0,
      dataType          |-> "schar",
      fileType          |-> 2,
      IFreq             |-> 20000,   \* settings.IF, Hz
      acqSatelliteList  |-> << >>,
      navSolPeriod      |-> 500,
      samplingFreq      |-> samplingFreq,
      acqSearchBand     |-> acqSearchBand ]

\* float('inf') of the source (NAVdecoding.py line 56, postNavigation.py line 75)
Inf == 1000000000

\* The variables of a stage that is not running
NdIdle ==
    nd = [pc |-> "idle", I_P_InputBits |-> << >>, index |-> << >>,
          subFrameStart |-> Inf, TOW |-> Inf, eph |-> "none",
          navBitsFrom |-> Inf, navBits |-> << >>]

CpIdle ==
    cp = [calls |-> 0, word |-> << >>, w |-> << >>, isStr |-> FALSE, D30Star |-> "0",
          ret1 |-> << >>, ret2 |-> << >>]

PrIdle ==
    pr = [pc |-> "idle"]

MeasIdle ==
    meas = [sampleStart |-> 0, sampleEnd |-> 0, step |-> 0]

LsIdle ==
    ls = [pc |-> "idle"]

DetIdle ==
    det = [pc |-> "idle"]

PpIdle ==
    pp = [pc |-> "idle"]

EpIdle ==
    ep = [pc |-> "idle"]

EnIdle ==
    en = [pc |-> "idle"]

ItIdle ==
    itr = [pc |-> "idle"]

FrIdle ==
    fr = [pc |-> "idle"]

UzIdle ==
    uz = [pc |-> "idle"]

PnIdle ==
    /\ pnpc = "idle"
    /\ trackNav = << >>
    /\ activeChnList = << >>
    /\ decodeList = << >>
    /\ subFrameStart = << >>
    /\ TOW = << >>
    /\ eph = << >>
    /\ readyChnList = << >>
    /\ satElev = << >>
    /\ measNrSum = 0
    /\ fixNr = 0
    /\ navSolutions = << >>

ParIdle ==
    /\ ndat = << >>
    /\ flipped = 0
    /\ parpc = "word"
    /\ parityResult = 0

TrkIdle ==
    /\ trkpc = "idle"
    /\ fileLen = 0
    /\ signal = 0
    /\ fidPos = 0
    /\ channelNr = 0
    /\ loopCnt = 0
    /\ loc = << >>
    /\ trackResults = << >>
    /\ written = {}

----------------------------------------------------------------------------
(* Acquisition (Include/acquisition.py) *)

\* Bounds of the acquisition model
MaxSats == 2

MaxChannels == 3

\* PRNs the satellite list is drawn from: GPS PRNs and one SBAS (WAAS) PRN
PRNPool == {3, 32, 120}

\* Intermediate frequencies tried (Hz): baseband and the default 20 kHz
IFSet == {0, 20000}

\* Peak metrics (tenths) the detector may produce
MetricSet == {0, 35, 36, 50}

\* Coarse peak code phases (samples)
CodePhaseSet == {7}

fine_search_step == 25

num_of_fine_bins == (acqSearchStep \div fine_search_step) + 1

num_freq == 2 * (acqSearchBand \div acqSearchStep) + 1

\* np.linspace(start_freq, stop_freq, num_freq)[i]
coarse_freq_bins(IFreq, i) ==
    LET start_freq == IFreq + acqSearchBand
        stop_freq  == IFreq - acqSearchBand
    IN  start_freq - (i * (start_freq - stop_freq)) \div (num_freq - 1)

\* fine_freq_bins[fine_bin_index] = coarse_freq - fine_search_step * fine_bin_index
fine_freq_bins(coarse_freq, fine_bin_index) ==
    coarse_freq - fine_search_step * fine_bin_index

\* Coarse and fine peak positions the model lets the detector land on
CoarseIdxSet == {13, 14}

FineIdxSet == {0, 1, num_of_fine_bins - 1}

\* Mutant: the detected frequency is stored as computed, 0 Hz included
CoerceCarrFreq_Stored(f) == f

\* "signal found, if IF = 0 just change to 1 Hz to allow processing"
CoerceCarrFreq(f) == IF f = 0 THEN 1 ELSE f

ZeroRow == [PRN |-> 0, carrFreq |-> 0, codePhase |-> 0, peakMetric |-> 0]

numSats == Len(settings.acqSatelliteList) + 1

\* One pass of the loop "for n in range(numSats - 1)" of acquisition()
AcquirePRN ==
    /\ acqpc = "acq"
    /\ acqN < numSats - 1
    /\ \E metric \in MetricSet, ci \in CoarseIdxSet, fi \in FineIdxSet,
          code_phase \in CodePhaseSet :
          LET row  == acqN + 1
              prn  == settings.acqSatelliteList[row]
              coarse_freq == coarse_freq_bins(settings.IFreq, ci)
              withMetric == [acqResults[row] EXCEPT !.peakMetric = metric]
          IN  acqResults' =
                IF metric > acqThreshold
                THEN [acqResults EXCEPT ![row] =
                        [ PRN        |-> prn,
                          carrFreq   |-> CoerceCarrFreq(fine_freq_bins(coarse_freq, fi)),
                          codePhase  |-> code_phase,
                          peakMetric |-> metric ]]
                ELSE [acqResults EXCEPT ![row] = withMetric]
    /\ acqN' = acqN + 1
    /\ UNCHANGED <<acqpc, channel, settings, trkVars, parVars, ndVars, pnVars, cpVars, prVars, measVars, lsVars, detVars, ppVars, epVars, enVars, itVars, frVars, uzVars>>

\* "Acquisition is over": return acqResults
AcquisitionReturn ==
    /\ acqpc = "acq"
    /\ acqN = numSats - 1
    /\ acqpc' = "prerun"
    /\ UNCHANGED <<acqN, acqResults, channel, settings, trkVars, parVars, ndVars, pnVars, cpVars, prVars, measVars, lsVars, detVars, ppVars, epVars, enVars, itVars, frVars, uzVars>>

----------------------------------------------------------------------------
(* Channel pre-run (Include/preRun.py) *)

channel_template == [PRN |-> 0, acquiredFreq |-> 0, codePhase |-> 0, status |-> "-"]

allowed_prns == 1..32

\* All permutations of 1..n as sequences
PermSeqs(n) ==
    {p \in [1..n -> 1..n] : \A i, j \in 1..n : i # j => p[i] # p[j]}

\* np.argsort(peakMetric)[::-1]: the row indices in descending metric order.
\* The order numpy gives to rows of equal metric is not specified, so every
\* descending order is a possible outcome.
SortedIdx(acq_results) ==
    {p \in PermSeqs(Len(acq_results)) :
        \A i, j \in 1..Len(acq_results) :
            i < j => acq_results[p[i]].peakMetric >= acq_results[p[j]].peakMetric}

\* Mutant: the ranker variant that does not filter by PRN
KeepIdx_Unfiltered(acq_results, sorted_idx) == sorted_idx

\* mask = np.isin(sorted_prn_channels, allowed_prns); keep_idx = sorted_idx[mask]
KeepIdx(acq_results, sorted_idx) ==
    SelectSeq(sorted_idx, LAMBDA r : acq_results[r].PRN \in allowed_prns)

\* The channel list pre_run builds from the rows in sorted_idx order
BuildChannels(acq_results, sorted_idx, numberOfChannels) ==
    LET keep_idx == KeepIdx(acq_results, sorted_idx)
        rows     == SubSeq(keep_idx, 1, Min(numberOfChannels, Len(keep_idx)))
    IN  [c \in 1..numberOfChannels |->
            IF c <= Len(rows)
            THEN [ PRN          |-> acq_results[rows[c]].PRN,
                   acquiredFreq |-> acq_results[rows[c]].carrFreq,
                   codePhase    |-> acq_results[rows[c]].codePhase,
                   status       |-> "T" ]
            ELSE channel_template]

\* pre_run(acq_results, settings)
PreRun ==
    /\ acqpc = "prerun"
    /\ \E sorted_idx \in SortedIdx(acqResults) :
          channel' = BuildChannels(acqResults, sorted_idx, settings.numberOfChannels)
    /\ acqpc' = "done"
    /\ UNCHANGED <<acqN, acqResults, settings, trkVars, parVars, ndVars, pnVars, cpVars, prVars, measVars, lsVars, detVars, ppVars, epVars, enVars, itVars, frVars, uzVars>>

\* Satellite lists: sequences without repetition over PRNPool, length 1..MaxSats
SatelliteLists ==
    UNION {{s \in [1..n -> PRNPool] : \A i, j \in 1..n : i # j => s[i] # s[j]} :
              n \in 1..MaxSats}

AcqInit ==
    /\ \E lst \in SatelliteLists, f \in IFSet, nch \in 1..MaxChannels :
          settings = [DefaultSettings EXCEPT !.acqSatelliteList = lst,
                                             !.IFreq = f,
                                             !.numberOfChannels = nch]
    /\ acqpc = "acq"
    /\ acqN = 0
    /\ acqResults = [r \in 1..numSats |-> ZeroRow]
    /\ channel = << >>
    /\ TrkIdle
    /\ UzIdle
    /\ FrIdle
    /\ ItIdle
    /\ EnIdle
    /\ EpIdle
    /\ PpIdle
    /\ DetIdle
    /\ LsIdle
    /\ MeasIdle
    /\ PrIdle
    /\ CpIdle
    /\ ParIdle
    /\ NdIdle
    /\ PnIdle

AcqNext == AcquirePRN \/ AcquisitionReturn \/ PreRun

SpecAcq == AcqInit /\ [][AcqNext]_vars

(* ---- Claims on acquisition and pre-run ---- *)

\* C1: in every record acquisition() returns, carrFreq is non-zero exactly
\* when peakMetric is above acqThreshold (a non-detected PRN keeps 0 Hz, a
\* detected PRN whose fine frequency is 0 Hz is stored as 1 Hz).
C1_CarrFreqIffDetected ==
    acqpc # "acq" =>
        \A r \in DOMAIN acqResults :
            (acqResults[r].carrFreq # 0) <=> (acqResults[r].peakMetric > acqThreshold)

\* A returned table holding a detected PRN stored at the coerced 1 Hz and a
\* PRN whose metric equals the threshold and is not detected.
C1_Witness ==
    /\ acqpc = "prerun"
    /\ \E r \in DOMAIN acqResults :
          acqResults[r].carrFreq = 1 /\ acqResults[r].peakMetric > acqThreshold
    /\ \E r \in DOMAIN acqResults :
          /\ acqResults[r].peakMetric = acqThreshold
          /\ acqResults[r].carrFreq = 0

\* Rows of the acquisition table whose PRN is in 1..32
EligibleRows == {r \in DOMAIN acqResults : acqResults[r].PRN \in 1..32}

\* Channel c is the Tracking channel seeded from row r
SeededFrom(c, r) ==
    /\ channel[c].status = "T"
    /\ channel[c].PRN = acqResults[r].PRN
    /\ channel[c].acquiredFreq = acqResults[r].carrFreq
    /\ channel[c].codePhase = acqResults[r].codePhase

\* C2: pre_run returns exactly numberOfChannels channels: first the (at most
\* numberOfChannels) records with PRN in 1..32 as Tracking channels, in
\* descending peakMetric order, no higher-metric such record left out; then
\* only Off padding with PRN 0.  No PRN outside 1..32 becomes Tracking.
C2_PreRunRanking ==
    acqpc = "done" =>
        LET nch == settings.numberOfChannels
            k   == Min(nch, Cardinality(EligibleRows))
        IN  /\ Len(channel) = nch
            /\ \E f \in [1..k -> EligibleRows] :
                  /\ \A c, d \in 1..k : c # d => f[c] # f[d]
                  /\ \A c \in 1..k : SeededFrom(c, f[c])
                  /\ \A c, d \in 1..k :
                        c < d => acqResults[f[c]].peakMetric >= acqResults[f[d]].peakMetric
                  /\ \A r \in EligibleRows \ {f[c] : c \in 1..k} :
                        \A c \in 1..k :
                            acqResults[r].peakMetric <= acqResults[f[c]].peakMetric
            /\ \A c \in (k + 1)..nch : channel[c] = channel_template
            /\ \A c \in 1..nch :
                  channel[c].status = "T" => channel[c].PRN \in 1..32

\* pre_run has returned a Tracking channel, an Off padding channel, and has
\* passed over a detected SBAS PRN with a higher metric than the tracked one.
C2_Witness ==
    /\ acqpc = "done"
    /\ Len(channel) >= 2
    /\ channel[1].status = "T"
    /\ channel[Len(channel)].status = "-"
    /\ \E r, q \in DOMAIN acqResults :
          /\ acqResults[r].PRN = 120
          /\ acqResults[q].PRN = channel[1].PRN
          /\ acqResults[r].peakMetric > acqResults[q].peakMetric

----------------------------------------------------------------------------
(* Tracking (Include/tracking.py).                                          *)
(* Channels and per-channel results are 1-based sequences (channelNr + 1 of *)
(* the source); the per-millisecond arrays keep the source's 0-based k.     *)
(* In this stage acquiredFreq, carrFreq and codeFreq are in kHz.            *)
(* The CNo block (lines 277-287) runs every VSMinterval = 40 ms and is      *)
(* outside the records modelled here (msToProcess < 40).                    *)

\* Bounds of the tracking model
MaxMs == 3

MaxTrkChannels == 2

\* The per-millisecond arrays of a TrackLog.  I_P stands for the six
\* correlator outputs and dllDiscrFilt / pllDiscrFilt for the four
\* discriminator arrays, which lines 269-275 assign together.
PerMsFields ==
    {"absoluteSample", "codeFreq", "carrFreq", "I_P", "dllDiscrFilt",
     "pllDiscrFilt", "remCodePhase", "remCarrPhase"}

\* Mutant: a TrackLog that starts out marked as tracked
init_result_Tracked(msToProcess) ==
    [ status         |-> "T",
      absoluteSample |-> [k \in 0..(msToProcess - 1) |-> 0],
      codeFreq       |-> [k \in 0..(msToProcess - 1) |-> "inf"],
      carrFreq       |-> [k \in 0..(msToProcess - 1) |-> "inf"],
      I_P            |-> [k \in 0..(msToProcess - 1) |-> 0],
      dllDiscrFilt   |-> [k \in 0..(msToProcess - 1) |-> "inf"],
      pllDiscrFilt   |-> [k \in 0..(msToProcess - 1) |-> "inf"],
      remCodePhase   |-> [k \in 0..(msToProcess - 1) |-> "inf"],
      remCarrPhase   |-> [k \in 0..(msToProcess - 1) |-> "inf"],
      PRN            |-> 0 ]

\* init_result()
init_result(msToProcess) ==
    [ status         |-> "-",
      absoluteSample |-> [k \in 0..(msToProcess - 1) |-> 0],
      codeFreq       |-> [k \in 0..(msToProcess - 1) |-> "inf"],
      carrFreq       |-> [k \in 0..(msToProcess - 1) |-> "inf"],
      I_P            |-> [k \in 0..(msToProcess - 1) |-> 0],
      dllDiscrFilt   |-> [k \in 0..(msToProcess - 1) |-> "inf"],
      pllDiscrFilt   |-> [k \in 0..(msToProcess - 1) |-> "inf"],
      remCodePhase   |-> [k \in 0..(msToProcess - 1) |-> "inf"],
      remCarrPhase   |-> [k \in 0..(msToProcess - 1) |-> "inf"],
      PRN            |-> 0 ]

\* dataAdaptCoeff = 1 if settings.fileType == 1 else 2
dataAdaptCoeff(s) == IF s.fileType = 1 THEN 1 ELSE 2

\* bytes_per_element = 2 if settings.dataType == 'int16' else 1
bytes_per_element(s) == IF s.dataType = "int16" THEN 2 ELSE 1

\* seek_offset = (skipNumberOfBytes + codePhase * dataAdaptCoeff) * bytes_per_element
seek_offset(s, ch) ==
    (s.skipNumberOfBytes + ch.codePhase * dataAdaptCoeff(s)) * bytes_per_element(s)

\* fid.tell() / dataAdaptCoeff / (2 if dataType == 'int16' else 1)
AbsoluteSample(s, pos) == (pos \div dataAdaptCoeff(s)) \div bytes_per_element(s)

\* The loop variables at the start of a channel (lines 144-161)
InitLoc(ch) ==
    [ codeFreq      |-> codeFreqBasis,
      remCodePhase  |-> 0,
      carrFreq      |-> ch.acquiredFreq,
      carrFreqBasis |-> ch.acquiredFreq,
      remCarrPhase  |-> 0,
      oldCodeNco    |-> 0,
      oldCarrNco    |-> 0 ]

\* Mutant: the block size truncated instead of rounded up
blksize_Floor(l) ==
    (codeLength * samplingFreq - l.remCodePhase) \div l.codeFreq

\* blksize = ceil((codeLength - remCodePhase) / codePhaseStep),
\* codePhaseStep = codeFreq / samplingFreq
blksize(l) ==
    CeilDiv(codeLength * samplingFreq - l.remCodePhase, l.codeFreq)

\* Mutant: the byte count of a block without the I/Q factor
num_bytes_Real(s, blk) == blk * bytes_per_element(s)

\* num_bytes = dataAdaptCoeff * blksize * bytes_per_element
num_bytes(s, blk) == dataAdaptCoeff(s) * blk * bytes_per_element(s)

\* remCodePhase = (tcode[-1] + codePhaseStep) - codeLength,
\* tcode[-1] = remCodePhase + (blksize - 1) * codePhaseStep
NextRemCodePhase(l, blk) ==
    l.remCodePhase + blk * l.codeFreq - codeLength * samplingFreq

\* remCarrPhase = np.remainder(trigarg[-1], 2 * pi),
\* trigarg[-1] = 2 * pi * carrFreq * blksize / samplingFreq + remCarrPhase
NextRemCarrPhase(l, blk) ==
    (l.carrFreq * blk + l.remCarrPhase) % samplingFreq

\* Correlation of the block read at sample abs with the channel's replicas
\* (lines 201-243): a function of the samples of the block, the PRN code and
\* the channel's own code and carrier state, of nothing else.
I_P_of(sig, prn, abs, blk, l) ==
    IF (abs + blk + prn * (sig + 1) + l.remCarrPhase) % 2 = 0 THEN 1 ELSE -1

\* Carrier loop: discriminator and loop filter (lines 247-250), the change of
\* carrNco in kHz.
CarrNcoStep(sig, prn, abs, blk, l) ==
    ((abs + blk + prn + sig + l.remCarrPhase) % 3) - 1

\* Code loop: discriminator and loop filter (lines 258-261), the change of
\* codeNco in kHz.
CodeNcoStep(sig, prn, abs, blk, l) ==
    (((abs \div 3) + prn * (sig + 1) + l.remCodePhase) % 3) - 1

\* One pass of the loop "for loopCnt in range(settings.msToProcess)" for the
\* channel seeded by ch, at file position pos: the new loop variables, TrackLog
\* and file position, whether the read came up short, and the per-ms fields
\* assigned at index k.
Iteration(s, sig, flen, ch, l, tr, k, pos) ==
    LET abs   == AbsoluteSample(s, pos)
        tr1   == [tr EXCEPT !.absoluteSample[k] = abs]
        blk   == blksize(l)
        nb    == num_bytes(s, blk)
        got   == Min(nb, Max(flen - pos, 0))
        carrNco == l.oldCarrNco + CarrNcoStep(sig, ch.PRN, abs, blk, l)
        codeNco == l.oldCodeNco + CodeNcoStep(sig, ch.PRN, abs, blk, l)
    IN  IF got < nb
        THEN [ eof |-> TRUE, loc |-> l, tr |-> tr1, pos |-> pos + got,
               wrote |-> {"absoluteSample"} ]
        ELSE [ eof |-> FALSE,
               loc |-> [ l EXCEPT !.remCodePhase = NextRemCodePhase(l, blk),
                                  !.remCarrPhase = NextRemCarrPhase(l, blk),
                                  !.oldCarrNco   = carrNco,
                                  !.carrFreq     = l.carrFreqBasis + carrNco,
                                  !.oldCodeNco   = codeNco,
                                  !.codeFreq     = codeFreqBasis - codeNco ],
               tr  |-> [ tr1 EXCEPT !.remCodePhase[k] = l.remCodePhase,
                                    !.remCarrPhase[k] = l.remCarrPhase,
                                    !.carrFreq[k]     = l.carrFreq,
                                    !.codeFreq[k]     = l.codeFreq,
                                    !.dllDiscrFilt[k] = codeNco,
                                    !.pllDiscrFilt[k] = carrNco,
                                    !.I_P[k] = I_P_of(sig, ch.PRN, abs, blk, l) ],
               pos |-> pos + nb,
               wrote |-> PerMsFields ]

\* "for channelNr in range(numberOfChannels)": if ch['PRN'] == 0: continue
TrkSkipChannel ==
    /\ trkpc = "channel"
    /\ channelNr <= settings.numberOfChannels
    /\ channel[channelNr].PRN = 0
    /\ channelNr' = channelNr + 1
    /\ UNCHANGED <<trkpc, fileLen, signal, fidPos, loopCnt, loc, trackResults, written>>
    /\ UNCHANGED <<settings, channel, acqVars, parVars, ndVars, pnVars, cpVars, prVars, measVars, lsVars, detVars, ppVars, epVars, enVars, itVars, frVars, uzVars>>

\* Lines 128-161: record the PRN, seek to the code phase, initialise the loops
TrkStartChannel ==
    /\ trkpc = "channel"
    /\ channelNr <= settings.numberOfChannels
    /\ channel[channelNr].PRN # 0
    /\ trackResults' = [trackResults EXCEPT ![channelNr].PRN = channel[channelNr].PRN]
    /\ fidPos' = seek_offset(settings, channel[channelNr])
    /\ loc' = InitLoc(channel[channelNr])
    /\ loopCnt' = 0
    /\ trkpc' = "loop"
    /\ UNCHANGED <<fileLen, signal, channelNr, written>>
    /\ UNCHANGED <<settings, channel, acqVars, parVars, ndVars, pnVars, cpVars, prVars, measVars, lsVars, detVars, ppVars, epVars, enVars, itVars, frVars, uzVars>>

\* One millisecond of the current channel; a short read returns from tracking()
TrkIteration ==
    /\ trkpc = "loop"
    /\ loopCnt < settings.msToProcess
    /\ LET r == Iteration(settings, signal, fileLen, channel[channelNr], loc,
                          trackResults[channelNr], loopCnt, fidPos)
       IN  /\ trackResults' = [trackResults EXCEPT ![channelNr] = r.tr]
           /\ fidPos' = r.pos
           /\ loc' = r.loc
           /\ written' = written \cup {<<channelNr, f, loopCnt>> : f \in r.wrote}
           /\ IF r.eof
              THEN trkpc' = "eof" /\ loopCnt' = loopCnt
              ELSE trkpc' = trkpc /\ loopCnt' = loopCnt + 1
    /\ UNCHANGED <<fileLen, signal, channelNr>>
    /\ UNCHANGED <<settings, channel, acqVars, parVars, ndVars, pnVars, cpVars, prVars, measVars, lsVars, detVars, ppVars, epVars, enVars, itVars, frVars, uzVars>>

\* Lines 289-291: all milliseconds done, copy the channel status
TrkEndChannel ==
    /\ trkpc = "loop"
    /\ loopCnt = settings.msToProcess
    /\ trackResults' = [trackResults EXCEPT ![channelNr].status = channel[channelNr].status]
    /\ channelNr' = channelNr + 1
    /\ trkpc' = "channel"
    /\ UNCHANGED <<fileLen, signal, fidPos, loopCnt, loc, written>>
    /\ UNCHANGED <<settings, channel, acqVars, parVars, ndVars, pnVars, cpVars, prVars, measVars, lsVars, detVars, ppVars, epVars, enVars, itVars, frVars, uzVars>>

\* Line 293: return trackResults, channel
TrkReturn ==
    /\ trkpc = "channel"
    /\ channelNr > settings.numberOfChannels
    /\ trkpc' = "done"
    /\ UNCHANGED <<fileLen, signal, fidPos, channelNr, loopCnt, loc, trackResults, written>>
    /\ UNCHANGED <<settings, channel, acqVars, parVars, ndVars, pnVars, cpVars, prVars, measVars, lsVars, detVars, ppVars, epVars, enVars, itVars, frVars, uzVars>>

\* Channel seeds as pre_run emits them: an Off padding channel or a Tracking
\* channel (PRN, acquiredFreq in kHz, codePhase in samples)
ChannelSeeds ==
    { channel_template,
      [PRN |-> 3, acquiredFreq |-> 20, codePhase |-> 0,  status |-> "T"],
      [PRN |-> 7, acquiredFreq |-> -5, codePhase |-> 50, status |-> "T"] }

\* Record lengths in samples: whole milliseconds plus a few samples
ExtraSamples == {0, 60, 200}

RecordSamples(maxms) ==
    {ms * samplingFreq + e : ms \in 0..maxms, e \in ExtraSamples}

SignalSet == {0, 1}

AcqIdle ==
    /\ acqpc = "idle"
    /\ acqN = 0
    /\ acqResults = << >>

TrkInit ==
    /\ \E nch \in 1..MaxTrkChannels, ms \in 1..MaxMs,
          dt \in {"schar", "int16"}, ft \in {1, 2} :
          settings = [DefaultSettings EXCEPT !.numberOfChannels = nch,
                                             !.msToProcess = ms,
                                             !.dataType = dt,
                                             !.fileType = ft]
    /\ channel \in [1..settings.numberOfChannels -> ChannelSeeds]
    /\ \E n \in RecordSamples(settings.msToProcess) :
          fileLen = n * dataAdaptCoeff(settings) * bytes_per_element(settings)
    /\ signal \in SignalSet
    /\ trkpc = "channel"
    /\ fidPos = 0
    /\ channelNr = 1
    /\ loopCnt = 0
    /\ loc = InitLoc(channel_template)
    /\ trackResults = [c \in 1..settings.numberOfChannels |->
                          init_result(settings.msToProcess)]
    /\ written = {}
    /\ AcqIdle
    /\ UzIdle
    /\ FrIdle
    /\ ItIdle
    /\ EnIdle
    /\ EpIdle
    /\ PpIdle
    /\ DetIdle
    /\ LsIdle
    /\ MeasIdle
    /\ PrIdle
    /\ CpIdle
    /\ ParIdle
    /\ NdIdle
    /\ PnIdle

TrkNext ==
    \/ TrkSkipChannel
    \/ TrkStartChannel
    \/ TrkIteration
    \/ TrkEndChannel
    \/ TrkReturn

SpecTrk == TrkInit /\ [][TrkNext]_vars

(* ---- Claims on tracking ---- *)

\* The value range of the residual code phase, [0, codeLength), and of the
\* residual carrier phase, [0, 2*pi), in the model's units
CodePhaseRange == 0..(codeLength * samplingFreq - 1)

CarrPhaseRange == 0..(samplingFreq - 1)

\* C3: after every completed 1-ms iteration of every tracked channel,
\* 0 <= remCodePhase < codeLength and 0 <= remCarrPhase < 2*pi, for the loop
\* variables and for every value logged in the TrackLog.
C3_ResidualPhases ==
    /\ trkpc \in {"loop", "eof"} =>
          /\ loc.remCodePhase \in CodePhaseRange
          /\ loc.remCarrPhase \in CarrPhaseRange
    /\ \A e \in written :
          /\ e[2] = "remCodePhase" =>
                trackResults[e[1]].remCodePhase[e[3]] \in CodePhaseRange
          /\ e[2] = "remCarrPhase" =>
                trackResults[e[1]].remCarrPhase[e[3]] \in CarrPhaseRange

\* A channel with a negative carrier frequency has completed an iteration that
\* left a non-zero residual code phase and a non-zero residual carrier phase.
C3_Witness ==
    /\ trkpc = "loop"
    /\ loopCnt >= 1
    /\ loc.carrFreq < 0
    /\ loc.remCodePhase > 0
    /\ loc.remCarrPhase > 0

\* The entries of the TrackLogs assigned so far are contiguous from k = 0, and
\* consecutive absoluteSample entries differ by the block size of the earlier
\* iteration, which is at least 1.
C4_Contiguous ==
    \A e \in written :
        LET c  == e[1]
            k  == e[3]
            tr == trackResults[c]
        IN  k > 0 =>
              /\ <<c, e[2], k - 1>> \in written
              /\ e[2] = "absoluteSample" =>
                    LET blk == CeilDiv(codeLength * samplingFreq - tr.remCodePhase[k - 1],
                                       tr.codeFreq[k - 1])
                    IN  /\ blk >= 1
                        /\ tr.absoluteSample[k] = tr.absoluteSample[k - 1] + blk
                        /\ tr.absoluteSample[k] > tr.absoluteSample[k - 1]

\* A step assigns entries only at the index of the iteration it runs, of the
\* channel it runs, and leaves every entry assigned earlier as it was.
C4_WriteOnce ==
    /\ \A e \in written' \ written : e[1] = channelNr /\ e[3] = loopCnt
    /\ \A e \in written :
          trackResults'[e[1]][e[2]][e[3]] = trackResults[e[1]][e[2]][e[3]]

\* C4: TrackLog entries are written in strictly increasing k, entry k only
\* during iteration k and never rewritten; absoluteSample is strictly
\* increasing, absoluteSample[k+1] = absoluteSample[k] + blksize_k, blksize_k >= 1.
C4_WriteOrder == [](C4_Contiguous) /\ [][C4_WriteOnce]_vars

\* The second channel of a list has logged its second millisecond, after a
\* first millisecond whose block was not the nominal 18000 samples.
C4_Witness ==
    /\ <<2, "absoluteSample", 1>> \in written
    /\ <<2, "codeFreq", 1>> \in written
    /\ trackResults[2].codeFreq[1] # codeFreqBasis
    /\ trackResults[2].absoluteSample[1] > 0

\* C5: when the stream ends during iteration k of a channel, tracking()
\* returns with that channel's per-ms fields written at 0..k-1 and no per-ms
\* field, absoluteSample included, written at any index >= k (every such
\* entry still holds the value init_result() gave it).
C5_TruncatedOnShortRead ==
    trkpc = "eof" =>
        \A f \in PerMsFields :
            /\ \A j \in 0..(loopCnt - 1) : <<channelNr, f, j>> \in written
            /\ \A j \in loopCnt..(settings.msToProcess - 1) :
                  trackResults[channelNr][f][j] = init_result(settings.msToProcess)[f][j]

\* What tracking() returns for a channel list holding the channel ch alone
RECURSIVE SoloLoop(_, _, _, _, _, _, _, _)
SoloLoop(s, sig, flen, ch, l, tr, k, pos) ==
    IF k = s.msToProcess
    THEN [tr EXCEPT !.status = ch.status]
    ELSE LET r == Iteration(s, sig, flen, ch, l, tr, k, pos)
         IN  IF r.eof THEN r.tr
             ELSE SoloLoop(s, sig, flen, ch, r.loc, r.tr, k + 1, r.pos)

SoloTrack(s, sig, flen, ch) ==
    IF ch.PRN = 0
    THEN init_result(s.msToProcess)
    ELSE SoloLoop(s, sig, flen, ch, InitLoc(ch),
                  [init_result(s.msToProcess) EXCEPT !.PRN = ch.PRN],
                  0, seek_offset(s, ch))

\* C6: the TrackLog tracking() returns for a channel is the one its own seed,
\* the settings and the sample stream determine, whatever the other channels
\* are and whatever happens while they are tracked.
C6_ChannelIndependence ==
    trkpc \in {"done", "eof"} =>
        \A c \in 1..settings.numberOfChannels :
            trackResults[c] = SoloTrack(settings, signal, fileLen, channel[c])

----------------------------------------------------------------------------
(* Navigation word parity (Common/navPartyChk.py).                          *)
(* ndat is a 1-based sequence: ndat[i + 1] is the source's ndat[i].         *)

\* Bound of the parity model: most data bits set in a generated word
MaxDataOnes == 2

\* Product of the elements of w at the (0-based, as in the source) positions taps
RECURSIVE TapProduct(_, _)
TapProduct(w, taps) ==
    IF taps = << >> THEN 1
    ELSE w[Head(taps) + 1] * TapProduct(w, Tail(taps))

\* Mutant: the D29 product without its last tap d24 (ndat[25])
ParityTaps_ShortD29 ==
    << <<0, 2, 3, 4, 6, 7, 11, 12, 13, 14, 15, 18, 19, 21, 24>>,
       <<1, 3, 4, 5, 7, 8, 12, 13, 14, 15, 16, 19, 20, 22, 25>>,
       <<0, 2, 4, 5, 6, 8, 9, 13, 14, 15, 16, 17, 20, 21, 23>>,
       <<1, 3, 5, 6, 7, 9, 10, 14, 15, 16, 17, 18, 21, 22, 24>>,
       <<1, 2, 4, 6, 7, 8, 10, 11, 15, 16, 17, 18, 19, 22, 23>>,
       <<0, 4, 6, 7, 9, 10, 11, 12, 14, 16, 20, 23, 24, 25>> >>

\* The factors of parity[0..5] (lines 38-43), as indices into ndat
ParityTaps ==
    << <<0, 2, 3, 4, 6, 7, 11, 12, 13, 14, 15, 18, 19, 21, 24>>,
       <<1, 3, 4, 5, 7, 8, 12, 13, 14, 15, 16, 19, 20, 22, 25>>,
       <<0, 2, 4, 5, 6, 8, 9, 13, 14, 15, 16, 17, 20, 21, 23>>,
       <<1, 3, 5, 6, 7, 9, 10, 14, 15, 16, 17, 18, 21, 22, 24>>,
       <<1, 2, 4, 6, 7, 8, 10, 11, 15, 16, 17, 18, 19, 22, 23, 25>>,
       <<0, 4, 6, 7, 9, 10, 11, 12, 14, 16, 20, 23, 24, 25>> >>

\* nav_party_chk(ndat)
nav_party_chk(w) ==
    LET inv == IF w[2] # 1
               THEN [i \in 1..32 |-> IF i \in 3..26 THEN -w[i] ELSE w[i]]
               ELSE w
        parity == [j \in 1..6 |-> TapProduct(inv, ParityTaps[j])]
    IN  IF \A j \in 1..6 : parity[j] = inv[26 + j]
        THEN -1 * inv[2]
        ELSE 0

\* IS-GPS-200 Table 20-XIV on 0/1 bits: D25..D30 are the XOR of D29* or D30*
\* with the source data bits d_i listed; the transmitted data bits are
\* d_i XOR D30*.  Each entry: <<which star bit (29 or 30), the data bits>>.
ParityEquations ==
    << <<29, {1, 2, 3, 5, 6, 10, 11, 12, 13, 14, 17, 18, 20, 23}>>,
       <<30, {2, 3, 4, 6, 7, 11, 12, 13, 14, 15, 18, 19, 21, 24}>>,
       <<29, {1, 3, 4, 5, 7, 8, 12, 13, 14, 15, 16, 19, 20, 22}>>,
       <<30, {2, 4, 5, 6, 8, 9, 13, 14, 15, 16, 17, 20, 21, 23}>>,
       <<30, {1, 3, 5, 6, 7, 9, 10, 14, 15, 16, 17, 18, 21, 22, 24}>>,
       <<29, {3, 5, 6, 8, 9, 10, 11, 13, 15, 19, 22, 23, 24}>> >>

\* The word a satellite sends for data bits set exactly at `ones`, after a
\* word ending in the bits s29, s30; 0/1 bits, positions as in ndat
EncodedBits(ones, s29, s30) ==
    [i \in 1..32 |->
        IF i = 1 THEN s29
        ELSE IF i = 2 THEN s30
        ELSE IF i <= 26 THEN ((IF (i - 2) \in ones THEN 1 ELSE 0) + s30) % 2
        ELSE LET eq == ParityEquations[i - 26]
             IN  ((IF eq[1] = 29 THEN s29 ELSE s30)
                  + Cardinality(eq[2] \cap ones)) % 2]

\* Hard decisions of the tracking output: bit 1 is +1 or, with the Costas
\* loop locked half a cycle off, -1
Levels(bits, pol) == [i \in 1..32 |-> IF bits[i] = 1 THEN pol ELSE -pol]

DataPatterns == {ones \in SUBSET (1..24) : Cardinality(ones) <= MaxDataOnes}

\* Apply nav_party_chk to the current word
NavPartyChk ==
    /\ ndat # << >>
    /\ parpc = "word"
    /\ parityResult' = nav_party_chk(ndat)
    /\ parpc' = "checked"
    /\ UNCHANGED <<ndat, flipped>>
    /\ UNCHANGED <<settings, channel, acqVars, trkVars, ndVars, pnVars, cpVars, prVars, measVars, lsVars, detVars, ppVars, epVars, enVars, itVars, frVars, uzVars>>

\* Flip one of the 30 bits d1..d24, D25..D30 of a word that was accepted
FlipBit ==
    /\ flipped = 0
    /\ parpc = "checked"
    /\ parityResult # 0
    /\ \E j \in 3..32 :
          /\ ndat' = [ndat EXCEPT ![j] = -ndat[j]]
          /\ flipped' = j
    /\ parpc' = "word"
    /\ UNCHANGED parityResult
    /\ UNCHANGED <<settings, channel, acqVars, trkVars, ndVars, pnVars, cpVars, prVars, measVars, lsVars, detVars, ppVars, epVars, enVars, itVars, frVars, uzVars>>

ParInit ==
    /\ \E ones \in DataPatterns, s29 \in {0, 1}, s30 \in {0, 1}, pol \in {-1, 1} :
          ndat = Levels(EncodedBits(ones, s29, s30), pol)
    /\ flipped = 0
    /\ parpc = "word"
    /\ parityResult = 0
    /\ settings = DefaultSettings
    /\ channel = << >>
    /\ AcqIdle
    /\ UzIdle
    /\ FrIdle
    /\ ItIdle
    /\ EnIdle
    /\ EpIdle
    /\ PpIdle
    /\ DetIdle
    /\ LsIdle
    /\ MeasIdle
    /\ PrIdle
    /\ CpIdle
    /\ TrkIdle
    /\ NdIdle
    /\ PnIdle

ParNext == NavPartyChk \/ FlipBit

SpecParity == ParInit /\ [][ParNext]_vars

(* ---- Claim on the parity check ---- *)

\* C10: nav_party_chk returns a non-zero value for a word whose six parity
\* bits are consistent with it, and returns 0 for every accepted word with
\* any single one of its 30 bits d1..d24, D25..D30 flipped.
C10_ParityDetectsSingleFlip ==
    parpc = "checked" =>
        IF flipped = 0 THEN parityResult \in {-1, 1} ELSE parityResult = 0

\* An accepted word with D30* = -1 (data bits inverted before the check),
\* whose data bit d24 was then flipped, has been checked again.
C10_Witness ==
    /\ parpc = "checked"
    /\ flipped = 26
    /\ ndat[2] = -1

----------------------------------------------------------------------------
(* Preamble search and frame synchronisation (Include/NAVdecoding.py).      *)
(* I_P is a 1-based sequence: I_P[n + 1] is the source's I_P_InputBits[n];  *)
(* preamble indices keep the source's 0-based values.  The source works     *)
(* with 20 samples (ms) per navigation bit; the model scales that number    *)
(* to BitLen and every constant derived from it accordingly.                *)

\* Bound: samples per navigation bit (20 in the source)
BitLen == 2

Abs(x) == IF x < 0 THEN -x ELSE x

preamble_bits == <<1, -1, -1, -1, 1, -1, 1, 1>>

\* np.kron(preamble_bits, np.ones(20)): 160 samples in the source
preamble_ms == [n \in 1..(8 * BitLen) |-> preamble_bits[((n - 1) \div BitLen) + 1]]

\* 153 in the source: at most 3 of the 160 samples may disagree
PreambleThreshold == 8 * BitLen - 7

\* 40, 6000, 20 * 60 and 1500 * 20 in the source
TwoBitsMs == 2 * BitLen
SubframeMs == 300 * BitLen
TwoWordsMs == 60 * BitLen
FiveSubframesMs == 1500 * BitLen

\* bits[bits > 0] = 1; bits[bits <= 0] = -1
Thresholded(v) == IF v > 0 THEN 1 ELSE -1

\* tlmXcorrResult[xcorrLength - 1 + k]: sum over n of bits[n + k] * preamble_ms[n],
\* the record being zero-padded by the transform
RECURSIVE xcorr(_, _, _)
xcorr(I_P, k, n) ==
    IF n > 8 * BitLen \/ k + n > Len(I_P) THEN 0
    ELSE Thresholded(I_P[k + n]) * preamble_ms[n] + xcorr(I_P, k, n + 1)

RECURSIVE SortedSeq(_)
SortedSeq(S) ==
    IF S = {} THEN << >>
    ELSE LET m == CHOOSE x \in S : \A y \in S : x <= y
         IN  <<m>> \o SortedSeq(S \ {m})

\* Mutant: candidates kept from index 40 on
PreambleIndex_From40(I_P, msToProcess) ==
    SortedSeq({k \in 0..(Len(I_P) - 1) :
                  /\ Abs(xcorr(I_P, k, 1)) > PreambleThreshold
                  /\ k >= TwoBitsMs
                  /\ k < msToProcess - (TwoWordsMs - 1)})

\* index after lines 89 and 92, ascending as np.where returns it
PreambleIndex(I_P, msToProcess) ==
    SortedSeq({k \in 0..(Len(I_P) - 1) :
                  /\ Abs(xcorr(I_P, k, 1)) > PreambleThreshold
                  /\ k > TwoBitsMs
                  /\ k < msToProcess - (TwoWordsMs - 1)})

RECURSIVE SumRange(_, _, _)
SumRange(v, a, b) == IF a > b THEN 0 ELSE v[a] + SumRange(v, a + 1, b)

\* bits_sum: I_P[i - 40 : i + 20 * 60] reshaped to 20 rows in column order,
\* summed over each column and thresholded; 62 values
bits_sum(I_P, i) ==
    LET bits_window == SubSeq(I_P, i - TwoBitsMs + 1, i + TwoWordsMs)
    IN  [c \in 1..62 |->
            Thresholded(SumRange(bits_window, (c - 1) * BitLen + 1, c * BitLen))]

\* Mutant: only the TLM word is verified
WordsParityOK_TLMOnly(bs) ==
    nav_party_chk(SubSeq(bs, 1, 32)) # 0

\* nav_party_chk(bits_sum[:32]) != 0 and nav_party_chk(bits_sum[30:62]) != 0
WordsParityOK(bs) ==
    /\ nav_party_chk(SubSeq(bs, 1, 32)) # 0
    /\ nav_party_chk(SubSeq(bs, 31, 62)) # 0

\* The loop of lines 95-121 from position i of index on: the first index[i]
\* with another index 6000 later and both parities good, else inf
RECURSIVE AnalyzePreambles(_, _, _)
AnalyzePreambles(I_P, index, i) ==
    IF i > Len(index) THEN Inf
    ELSE IF /\ \E j \in 1..Len(index) : index[j] - index[i] = SubframeMs
            /\ WordsParityOK(bits_sum(I_P, index[i]))
         THEN index[i]
         ELSE AnalyzePreambles(I_P, index, i + 1)

\* TOW values ephemeris() may decode from five subframes
TOWSet == {-30, 345600}

\* Lines 53-121: correlate, list the preamble-like patterns, verify them
NdSearch ==
    /\ nd.pc = "call"
    /\ LET index == PreambleIndex(nd.I_P_InputBits, settings.msToProcess)
       IN  nd' = [nd EXCEPT !.pc = "searched",
                            !.index = index,
                            !.subFrameStart = AnalyzePreambles(nd.I_P_InputBits, index, 1)]
    /\ UNCHANGED <<settings, channel, acqVars, trkVars, parVars, pnVars, cpVars, prVars, measVars, lsVars, detVars, ppVars, epVars, enVars, itVars, frVars, uzVars>>

\* Lines 124-126: no valid preamble, return the initial eph, inf, inf
NdReturnNoPreamble ==
    /\ nd.pc = "searched"
    /\ nd.subFrameStart = Inf
    /\ nd' = [nd EXCEPT !.pc = "return"]
    /\ UNCHANGED <<settings, channel, acqVars, trkVars, parVars, pnVars, cpVars, prVars, measVars, lsVars, detVars, ppVars, epVars, enVars, itVars, frVars, uzVars>>

\* Line 131: the slice I_P_InputBits[(subFrameStart - 20) + 1 :
\* (subFrameStart + 1500 * 20) + 1], first index and index after the last
NavBitsFrom(sfs) == (sfs - BitLen) + 1
NavBitsTo(sfs) == (sfs + FiveSubframesMs) + 1

\* Lines 135-142: the slice reshaped to 20 rows in column order, summed
\* over each column, navBits = (navBits > 0); 1501 values
navBits(I_P, sfs) ==
    LET navBitsSamples == SubSeq(I_P, NavBitsFrom(sfs) + 1, NavBitsTo(sfs))
    IN  [c \in 1..1501 |->
            IF SumRange(navBitsSamples, (c - 1) * BitLen + 1, c * BitLen) > 0 THEN 1 ELSE 0]

\* Lines 131-150: cut 1501 bits out of I_P and decode them.  A slice that
\* runs past the record is silently shortened; then reshape or ephemeris()
\* raises ValueError.  The decoded fields are not modelled here.
NdDecode ==
    /\ nd.pc = "searched"
    /\ nd.subFrameStart # Inf
    /\ IF NavBitsTo(nd.subFrameStart) <= Len(nd.I_P_InputBits)
       THEN \E tow \in TOWSet :
               nd' = [nd EXCEPT !.pc = "return", !.eph = "decoded", !.TOW = tow,
                                !.navBitsFrom = NavBitsFrom(nd.subFrameStart),
                                !.navBits = navBits(nd.I_P_InputBits, nd.subFrameStart)]
       ELSE nd' = [nd EXCEPT !.pc = "ValueError"]
    /\ UNCHANGED <<settings, channel, acqVars, trkVars, parVars, pnVars, cpVars, prVars, measVars, lsVars, detVars, ppVars, epVars, enVars, itVars, frVars, uzVars>>

(* ---- Tracking outputs offered to NAVdecoding ---- *)

TLMOnes == {1, 5, 7, 8, 12}
HOWOnes == {3, 10, 17}

FlipAt(w, pos) == [w EXCEPT ![pos] = 1 - w[pos]]

\* The 60 bits of a TLM and a HOW word following a word that ended in
\* s29, s30; bad names the word sent with one data bit in error
SubframeHead(s29, s30, bad) ==
    LET tlm == EncodedBits(TLMOnes, s29, s30)
        how == EncodedBits(HOWOnes, tlm[31], tlm[32])
    IN  SubSeq(IF bad = "TLM" THEN FlipAt(tlm, 13) ELSE tlm, 3, 32)
        \o SubSeq(IF bad = "HOW" THEN FlipAt(how, 7) ELSE how, 3, 32)

Filler(n) == [i \in 1..n |-> 0]

RECURSIVE LaterSubframes(_)
LaterSubframes(n) ==
    IF n = 0 THEN << >>
    ELSE Filler(240) \o SubframeHead(0, 0, "none") \o LaterSubframes(n - 1)

\* Two bits of the previous word, then nsub subframes that begin with a
\* preamble; the last one is cut after its HOW word.  With nsub = 1 the
\* second subframe carries no preamble.
BitStream(p) ==
    <<p.s29, p.s30>> \o SubframeHead(p.s29, p.s30, p.bad)
    \o (IF p.nsub = 1 THEN Filler(300) ELSE LaterSubframes(p.nsub - 1))

\* I_P of a channel that tracked the stream: BitLen samples of +-3 per bit
\* after p.lead samples of noise; pol = -1 is a Costas loop locked half a
\* cycle off; the last p.cut samples are missing; with p.noisy the second
\* sample of the first preamble has the wrong sign
NavRecord(p) ==
    LET stream == BitStream(p)
        len == p.lead + Len(stream) * BitLen - p.cut
    IN  [n \in 1..len |->
            IF n <= p.lead THEN 0
            ELSE LET bit == stream[((n - p.lead - 1) \div BitLen) + 1]
                     level == IF bit = 1 THEN p.pol ELSE -p.pol
                 IN  IF p.noisy /\ n = p.lead + TwoBitsMs + 2
                     THEN -level
                     ELSE 3 * level]

NavRecordParams ==
    [lead : {0, 1, 3}, s29 : {0}, s30 : {0, 1}, pol : {-1, 1}, nsub : {1, 2, 3},
     bad : {"none", "TLM", "HOW"}, cut : {0, 1}, noisy : {FALSE}]
    \cup
    [lead : {1}, s29 : {1}, s30 : {1}, pol : {1}, nsub : {2, 6},
     bad : {"none"}, cut : {0}, noisy : {FALSE, TRUE}]
    \cup
    [lead : {240 * BitLen, 1500 * BitLen}, s29 : {0}, s30 : {1}, pol : {1, -1},
     nsub : {2, 6}, bad : {"none"}, cut : {0, 1}, noisy : {FALSE}]

NdInit ==
    /\ \E p \in NavRecordParams :
          /\ nd = [pc |-> "call", I_P_InputBits |-> NavRecord(p), index |-> << >>,
                   subFrameStart |-> Inf, TOW |-> Inf, eph |-> "none",
                   navBitsFrom |-> Inf, navBits |-> << >>]
          /\ settings = [DefaultSettings EXCEPT !.msToProcess = Len(NavRecord(p))]
    /\ channel = << >>
    /\ AcqIdle
    /\ UzIdle
    /\ FrIdle
    /\ ItIdle
    /\ EnIdle
    /\ EpIdle
    /\ PpIdle
    /\ DetIdle
    /\ LsIdle
    /\ MeasIdle
    /\ PrIdle
    /\ CpIdle
    /\ TrkIdle
    /\ ParIdle
    /\ PnIdle

NdNext == NdSearch \/ NdReturnNoPreamble \/ NdDecode

SpecPreamble == NdInit /\ [][NdNext]_vars

(* ---- Claim on the preamble search ---- *)

\* Hard decision of sample n (0-based) of the record
C8_Hard(I_P, n) == IF I_P[n + 1] > 0 THEN 1 ELSE -1

\* Correlation of the 8 * BitLen hard decisions from sample i on with the preamble
C8_Xcorr(I_P, i) ==
    LET term(n) == C8_Hard(I_P, i + n) * preamble_bits[(n \div BitLen) + 1]
        S[n \in 0..(8 * BitLen)] == IF n = 8 * BitLen THEN 0 ELSE term(n) + S[n + 1]
    IN  S[0]

C8_Candidates(I_P, ms) ==
    {i \in (TwoBitsMs + 1)..(ms - TwoWordsMs) : Abs(C8_Xcorr(I_P, i)) > PreambleThreshold}

\* Hard bit j (1..62) of the window I_P[i-40 .. i+1199]
C8_HardBit(I_P, i, j) ==
    LET first == i - TwoBitsMs + (j - 1) * BitLen
        S[n \in 0..BitLen] == IF n = BitLen THEN 0 ELSE I_P[first + n + 1] + S[n + 1]
    IN  IF S[0] > 0 THEN 1 ELSE -1

C8_Qualifying(I_P, ms) ==
    LET cand == C8_Candidates(I_P, ms)
    IN  {i \in cand :
            /\ i + SubframeMs \in cand
            /\ nav_party_chk([j \in 1..32 |-> C8_HardBit(I_P, i, j)]) # 0
            /\ nav_party_chk([j \in 1..32 |-> C8_HardBit(I_P, i, j + 30)]) # 0}

\* C8: after the search subFrameStart is the smallest candidate index
\* (|xcorr| > 153, 40 < i < msToProcess - 1199) that has another candidate
\* exactly one subframe later and whose TLM and HOW words both pass the
\* parity check; if there is none, subFrameStart and TOW stay infinite and
\* NAVdecoding returns them so.
C8_FirstVerifiedPreamble ==
    nd.pc \in {"searched", "return", "ValueError"} =>
        LET q == C8_Qualifying(nd.I_P_InputBits, settings.msToProcess)
        IN  IF q = {}
            THEN /\ nd.subFrameStart = Inf
                 /\ nd.pc # "ValueError"
                 /\ nd.pc = "return" => nd.TOW = Inf
            ELSE /\ nd.subFrameStart \in q
                 /\ \A i \in q : nd.subFrameStart <= i

\* The search passed over an earlier candidate that has a partner one
\* subframe later but fails parity, and accepted a later one.
C8_Witness ==
    /\ nd.pc = "searched"
    /\ nd.subFrameStart # Inf
    /\ \E j \in 1..Len(nd.index) :
          /\ nd.index[j] < nd.subFrameStart
          /\ \E k \in 1..Len(nd.index) : nd.index[k] = nd.index[j] + SubframeMs

----------------------------------------------------------------------------
(* Navigation (Include/postNavigation.py).  Channels are numbered from 0   *)
(* as in the source; per-channel arrays are functions on 0..n-1.  The call *)
(* NAVdecoding(trackResults[ch]['I_P'], settings) is represented by its    *)
(* outcome, which trackNav[ch].nav describes: no verified preamble, a      *)
(* preamble accepted too late for five subframes to follow, or the         *)
(* ephemeris fields decoded.  Pseudoranges, satellite positions and the    *)
(* least-squares fix are represented by the elevations the fix returns.    *)

\* Bounds of the navigation model
MaxNavChannels == 6
MaxEpochs == 2

\* settings.elevationMask, and 36000 of line 65
elevationMask == 5
MinMsToProcess == 36000

\* The value [] every field of eph_structure_init() starts with
EmptyList == -1

eph_structure_init ==
    [IODC |-> EmptyList, IODE_sf2 |-> EmptyList, IODE_sf3 |-> EmptyList,
     health |-> EmptyList]

\* What NAVdecoding returns or raises for a channel's I_P
NAVdecodingReturn(nav) ==
    IF nav.preamble = "none"
    THEN [raised |-> FALSE, eph |-> eph_structure_init, subFrameStart |-> Inf, TOW |-> Inf]
    ELSE IF nav.preamble = "late"
    THEN [raised |-> TRUE, eph |-> eph_structure_init, subFrameStart |-> Inf, TOW |-> Inf]
    ELSE [raised |-> FALSE, eph |-> nav.eph, subFrameStart |-> nav.subFrameStart,
          TOW |-> nav.TOW]

\* Python's truth value of an ephemeris field: [] and 0 are false
Truthy(v) == v # EmptyList /\ v # 0

\* The test of line 97 passed: the channel is kept
HasNavData(decoded) ==
    /\ Truthy(decoded.IODC)
    /\ Truthy(decoded.IODE_sf2)
    /\ Truthy(decoded.IODE_sf3)
    /\ decoded.health = 0

\* list.remove(ch)
Remove(list, ch) == SelectSeq(list, LAMBDA c : c # ch)

Channels == DOMAIN trackNav

\* Lines 65-86: too short a record returns None; else allocate and list the
\* channels whose status is not '-'
PnStart ==
    /\ pnpc = "call"
    /\ IF settings.msToProcess < MinMsToProcess
       THEN /\ pnpc' = "returnNone"
            /\ UNCHANGED <<activeChnList, decodeList, subFrameStart, TOW, eph>>
       ELSE /\ pnpc' = "decode"
            /\ subFrameStart' = [ch \in 0..(settings.numberOfChannels - 1) |-> Inf]
            /\ TOW' = [ch \in 0..(settings.numberOfChannels - 1) |-> Inf]
            /\ activeChnList' = SortedSeq({ch \in Channels : trackNav[ch].status # "-"})
            /\ decodeList' = activeChnList'
            /\ eph' = [prn \in 1..33 |-> eph_structure_init]
    /\ UNCHANGED <<trackNav, readyChnList, satElev, measNrSum, fixNr, navSolutions>>
    /\ UNCHANGED <<settings, channel, acqVars, trkVars, parVars, ndVars, cpVars, prVars, measVars, lsVars, detVars, ppVars, epVars, enVars, itVars, frVars, uzVars>>

\* Lines 88-101, one pass of the loop over activeChnList[:]
PnDecodeChannel ==
    /\ pnpc = "decode"
    /\ decodeList # << >>
    /\ LET ch == Head(decodeList)
           PRN == trackNav[ch].PRN
           ret == NAVdecodingReturn(trackNav[ch].nav)
           decoded == ret.eph
       IN  IF ret.raised
           THEN /\ pnpc' = "ValueError"
                /\ UNCHANGED <<activeChnList, decodeList, subFrameStart, TOW, eph>>
           ELSE /\ subFrameStart' = [subFrameStart EXCEPT ![ch] = ret.subFrameStart]
                /\ TOW' = [TOW EXCEPT ![ch] = ret.TOW]
                /\ eph' = [eph EXCEPT ![PRN] = decoded]
                /\ activeChnList' = IF ~HasNavData(decoded)
                                    THEN Remove(activeChnList, ch)
                                    ELSE activeChnList
                /\ decodeList' = Tail(decodeList)
                /\ UNCHANGED pnpc
    /\ UNCHANGED <<trackNav, readyChnList, satElev, measNrSum, fixNr, navSolutions>>
    /\ UNCHANGED <<settings, channel, acqVars, trkVars, parVars, ndVars, cpVars, prVars, measVars, lsVars, detVars, ppVars, epVars, enVars, itVars, frVars, uzVars>>

\* int(x / y) for y > 0: the quotient truncated toward zero
TruncDiv(x, y) == IF x >= 0 THEN x \div y ELSE -((-x) \div y)

RECURSIVE MaxOver(_, _, _)
MaxOver(f, list, field) ==
    IF Len(list) = 1 THEN f[list[1]][field]
    ELSE Max(f[list[1]][field], MaxOver(f, Tail(list), field))

RECURSIVE MinOver(_, _, _)
MinOver(f, list, field) ==
    IF Len(list) = 1 THEN f[list[1]][field]
    ELSE Min(f[list[1]][field], MinOver(f, Tail(list), field))

\* Lines 112-121: measurement points start after the latest subframe start
\* and end before the earliest end of a TrackLog, of the active channels
MeasurementPoints(s, tn, list) ==
    LET sampleStart == MaxOver(tn, list, "sampleAtSubFrame") + 1
        sampleEnd == MinOver(tn, list, "sampleLast") - 1
        step == (samplingFreq * s.navSolPeriod)
    IN  [sampleStart |-> sampleStart, sampleEnd |-> sampleEnd, step |-> step]

\* Lines 105-145: fewer than 4 channels left returns None; else the
\* measurement points and their number are fixed, satElev starts at inf and
\* the active list is saved
PnCount ==
    /\ pnpc = "decode"
    /\ decodeList = << >>
    /\ IF Len(activeChnList) < 4
       THEN /\ pnpc' = "returnNone"
            /\ UNCHANGED <<readyChnList, satElev, measNrSum, meas>>
       ELSE /\ pnpc' = "epochs"
            /\ meas' = MeasurementPoints(settings, trackNav, activeChnList)
            /\ measNrSum' = TruncDiv(meas'.sampleEnd - meas'.sampleStart, meas'.step)
            /\ satElev' = [k \in 1..settings.numberOfChannels |-> Inf]
            /\ readyChnList' = activeChnList
    /\ UNCHANGED <<trackNav, activeChnList, decodeList, subFrameStart, TOW, eph,
                   fixNr, navSolutions>>
    /\ UNCHANGED <<settings, channel, acqVars, trkVars, parVars, ndVars, cpVars, prVars, lsVars, detVars, ppVars, epVars, enVars, itVars, frVars, uzVars>>

\* Mutant: every epoch measured at sampleStart
currSample_Fixed(sampleStart, step, i) == sampleStart

\* currSample = sampleStart + step * i (line 151)
currSample(sampleStart, step, i) == sampleStart + step * i

\* satElev[ch-1] is readable: index -1 is the last element, an index from
\* len(satElev) on raises IndexError
ElevReadable(ch) == ch - 1 < Len(satElev)
ElevRead(ch) == IF ch - 1 < 0 THEN satElev[Len(satElev)] ELSE satElev[ch]

\* Elevations a fix may return for k satellites
ElevSet(k) ==
    {[j \in 1..k |-> 45]} \cup {[j \in 1..k |-> IF j = low THEN 0 ELSE 45] : low \in {1, k}}

\* What least_square_pos may return for k satellites: elevations and DOP
\* from Q, or the failure solution of a rank-deficient geometry, whose
\* elevations are those of the pass before the failure (zeros at the first)
FixSet(k) ==
    {[el |-> e, DOP |-> "Q"] : e \in ElevSet(k)}
        \cup {[el |-> [j \in 1..k |-> 0], DOP |-> "inf"], [el |-> [j \in 1..k |-> 45], DOP |-> "inf"]}

\* Lines 146-199, one pass of the epoch loop
PnEpoch ==
    /\ pnpc = "epochs"
    /\ fixNr < measNrSum
    /\ IF \E i \in 1..Len(readyChnList) : ~ElevReadable(readyChnList[i])
       THEN /\ pnpc' = "IndexError"
            /\ UNCHANGED <<satElev, fixNr, navSolutions>>
       ELSE LET activeNow == SelectSeq(readyChnList,
                                       LAMBDA ch : ElevRead(ch) >= elevationMask)
            IN  IF Len(activeNow) > 3
                THEN /\ \E fix \in FixSet(Len(activeNow)) :
                           /\ navSolutions' = Append(navSolutions,
                                 [PRN |-> [j \in 1..Len(activeNow) |-> trackNav[activeNow[j]].PRN],
                                  channels |-> activeNow,
                                  el |-> fix.el,
                                  DOP |-> fix.DOP,
                                  currMeasSample |->
                                     currSample(meas.sampleStart, meas.step, fixNr)])
                           /\ satElev' = fix.el
                     /\ fixNr' = fixNr + 1
                     /\ UNCHANGED pnpc
                ELSE /\ pnpc' = "return"
                     /\ UNCHANGED <<satElev, fixNr, navSolutions>>
    /\ UNCHANGED <<trackNav, activeChnList, decodeList, subFrameStart, TOW, eph,
                   readyChnList, measNrSum>>
    /\ UNCHANGED <<settings, channel, acqVars, trkVars, parVars, ndVars, cpVars, prVars, measVars, lsVars, detVars, ppVars, epVars, enVars, itVars, frVars, uzVars>>

\* Line 201
PnReturn ==
    /\ pnpc = "epochs"
    /\ fixNr = measNrSum
    /\ pnpc' = "return"
    /\ UNCHANGED <<trackNav, activeChnList, decodeList, subFrameStart, TOW, eph,
                   readyChnList, satElev, measNrSum, fixNr, navSolutions>>
    /\ UNCHANGED <<settings, channel, acqVars, trkVars, parVars, ndVars, cpVars, prVars, measVars, lsVars, detVars, ppVars, epVars, enVars, itVars, frVars, uzVars>>

(* ---- Tracking results offered to postNavigation ---- *)

FoundNav(e) == [preamble |-> "found", eph |-> e, subFrameStart |-> 41, TOW |-> 345600]

GoodNav == FoundNav([IODC |-> 5, IODE_sf2 |-> 5, IODE_sf3 |-> 5, health |-> 0])
NoPreambleNav == [preamble |-> "none", eph |-> eph_structure_init,
                  subFrameStart |-> Inf, TOW |-> Inf]
LatePreambleNav == [NoPreambleNav EXCEPT !.preamble = "late"]

\* What may be wrong with a channel's navigation data
DefectNavs ==
    { NoPreambleNav,
      LatePreambleNav,
      FoundNav([IODC |-> 0, IODE_sf2 |-> 0, IODE_sf3 |-> 0, health |-> 0]),
      FoundNav([IODC |-> 256, IODE_sf2 |-> 0, IODE_sf3 |-> 0, health |-> 0]),
      FoundNav([IODC |-> 5, IODE_sf2 |-> 5, IODE_sf3 |-> 5, health |-> 1]),
      FoundNav([IODC |-> 5, IODE_sf2 |-> 5, IODE_sf3 |-> EmptyList, health |-> 0]) }

\* Number of the sample at which the first subframe of channel 0 starts
FirstSubFrameSample == 738000

\* n channels: at most two of them carry the defect, the others good data;
\* with idleLast the last channel is a padding channel that tracked nothing.
\* sampleAtSubFrame is absoluteSample[subFrameStart] and sampleLast is
\* absoluteSample[-1] of the channel's TrackLog: the logs end `epochs`
\* measurement steps after the subframe starts, or, with epochs = -1, were
\* never completed and end with the placeholder 0.
TrackNavOf(n, bad, defect, idleLast, epochs, step) ==
    [ch \in 0..(n - 1) |->
        IF idleLast /\ ch = n - 1
        THEN [status |-> "-", PRN |-> 0, nav |-> NoPreambleNav,
              sampleAtSubFrame |-> 0, sampleLast |-> 0]
        ELSE [status |-> "T", PRN |-> 3 * ch + 2,
              nav |-> IF ch \in bad THEN defect ELSE GoodNav,
              sampleAtSubFrame |-> FirstSubFrameSample + 100 * ch,
              sampleLast |-> IF epochs < 0 THEN 0
                             ELSE FirstSubFrameSample + 1000 + epochs * step + 100 * ch]]

PnInit ==
    /\ \E n \in 4..MaxNavChannels, defect \in DefectNavs, idleLast \in BOOLEAN :
          \E bad \in {b \in SUBSET (0..(n - 1)) : Cardinality(b) <= 2} :
             \E ms \in {MinMsToProcess - 1, MinMsToProcess},
                epochs \in (-1)..MaxEpochs, period \in {500, 1000} :
                /\ trackNav = TrackNavOf(n, bad, defect, idleLast, epochs,
                                         samplingFreq * period)
                /\ settings = [DefaultSettings EXCEPT !.msToProcess = ms,
                                                      !.numberOfChannels = n,
                                                      !.navSolPeriod = period]
    /\ pnpc = "call"
    /\ activeChnList = << >>
    /\ decodeList = << >>
    /\ subFrameStart = << >>
    /\ TOW = << >>
    /\ eph = << >>
    /\ readyChnList = << >>
    /\ satElev = << >>
    /\ measNrSum = 0
    /\ fixNr = 0
    /\ navSolutions = << >>
    /\ channel = << >>
    /\ AcqIdle
    /\ UzIdle
    /\ FrIdle
    /\ ItIdle
    /\ EnIdle
    /\ EpIdle
    /\ PpIdle
    /\ DetIdle
    /\ LsIdle
    /\ MeasIdle
    /\ PrIdle
    /\ CpIdle
    /\ TrkIdle
    /\ ParIdle
    /\ NdIdle

PnNext == PnStart \/ PnDecodeChannel \/ PnCount \/ PnEpoch \/ PnReturn

SpecNav == PnInit /\ [][PnNext]_vars

(* ---- Claims on the channel bookkeeping of postNavigation ---- *)

Tracked == {ch \in Channels : trackNav[ch].status # "-"}

DecodingOver == pnpc \in {"epochs", "returnNone", "return", "IndexError"} \/
                (pnpc = "decode" /\ decodeList = << >>)

InList(list, ch) == \E i \in 1..Len(list) : list[i] = ch

\* Usable ephemeris: the three issue numbers were decoded, whatever their
\* value, and the satellite is healthy
Usable(e) ==
    /\ e.IODC # EmptyList
    /\ e.IODE_sf2 # EmptyList
    /\ e.IODE_sf3 # EmptyList
    /\ e.health = 0

\* C7: once every channel has been decoded, a tracked channel is in the
\* active list if and only if its decoded ephemeris is usable (IODC,
\* IODE_sf2, IODE_sf3 present whatever their value, health 0); channels
\* with unusable data have been removed.
C7_ActiveIffUsable ==
    (DecodingOver /\ settings.msToProcess >= MinMsToProcess) =>
        \A ch \in Tracked :
           InList(activeChnList, ch) <=> Usable(eph[trackNav[ch].PRN])

\* Every tracked channel either has good navigation data or no preamble
OnlyPreambleless ==
    \A ch \in Tracked : trackNav[ch].nav \in {GoodNav, NoPreambleNav}

\* C9: a tracked channel without a verified preamble gets an empty
\* ephemeris and infinite subFrameStart and TOW, leaves the active list,
\* appears in no fix, and navigation with the remaining channels ends
\* without an exception.
C9_PreamblelessChannelExcluded ==
    /\ \A ch \in Tracked :
          (trackNav[ch].nav.preamble = "none" /\ DecodingOver
             /\ settings.msToProcess >= MinMsToProcess) =>
             /\ subFrameStart[ch] = Inf
             /\ TOW[ch] = Inf
             /\ eph[trackNav[ch].PRN] = eph_structure_init
             /\ ~InList(activeChnList, ch)
             /\ \A i \in 1..Len(navSolutions) : ~InList(navSolutions[i].channels, ch)
    /\ (OnlyPreambleless
          /\ \A i \in 1..Len(navSolutions) :
                \A j \in 1..Len(navSolutions[i].el) :
                   navSolutions[i].el[j] >= elevationMask)
       => pnpc # "IndexError"

----------------------------------------------------------------------------
(* Polarity correction of a navigation word (Common/checkPhase.py).         *)
(* A word is a sequence of the characters "0" and "1"; word[i] is the       *)
(* source's word[i - 1].                                                    *)

\* Bound: most '1' characters in a generated word
MaxWordOnes == 2

InvertBit(b) == IF b = "1" THEN "0" ELSE "1"

\* Mutant: every bit of the word inverted
checkPhase_WholeWord(word, D30Star) ==
    IF D30Star = "1"
    THEN [i \in 1..Len(word) |-> InvertBit(word[i])]
    ELSE word

\* The value checkPhase returns: word[:24] inverted when D30Star == '1'
checkPhase(word, D30Star) ==
    IF D30Star = "1"
    THEN [i \in 1..Len(word) |-> IF i <= 24 THEN InvertBit(word[i]) ELSE word[i]]
    ELSE word

\* One call.  The first call gets the caller's word, the second the value
\* the first returned.  A str argument is copied into a list (line 11); a
\* list argument is changed in place and returned, so the caller's word
\* changes with it.
CheckPhaseCall ==
    /\ cp.calls \in {1, 2}
    /\ LET arg == IF cp.calls = 1 THEN cp.word ELSE cp.ret1
           ret == checkPhase(arg, cp.D30Star)
       IN  cp' = [cp EXCEPT !.calls = cp.calls + 1,
                            !.word = IF cp.isStr THEN cp.word ELSE ret,
                            !.ret1 = IF cp.calls = 1 THEN ret ELSE cp.ret1,
                            !.ret2 = IF cp.calls = 2 THEN ret ELSE cp.ret2]
    /\ UNCHANGED <<settings, channel, acqVars, trkVars, parVars, ndVars, pnVars, prVars, measVars, lsVars, detVars, ppVars, epVars, enVars, itVars, frVars, uzVars>>

\* The subsets of S with at most k elements
RECURSIVE SubsetsUpTo(_, _)
SubsetsUpTo(S, k) ==
    IF k = 0 THEN {{}}
    ELSE LET smaller == SubsetsUpTo(S, k - 1)
         IN  smaller \cup {o \cup {x} : o \in smaller, x \in S}

Words30 ==
    {[i \in 1..30 |-> IF i \in ones THEN "1" ELSE "0"] :
        ones \in SubsetsUpTo(1..30, MaxWordOnes)}

CpInit ==
    /\ \E w \in Words30, isStr \in BOOLEAN, D30Star \in {"0", "1"} :
          cp = [calls |-> 1, word |-> w, w |-> w, isStr |-> isStr, D30Star |-> D30Star,
                ret1 |-> << >>, ret2 |-> << >>]
    /\ settings = DefaultSettings
    /\ channel = << >>
    /\ AcqIdle
    /\ UzIdle
    /\ FrIdle
    /\ ItIdle
    /\ EnIdle
    /\ EpIdle
    /\ PpIdle
    /\ DetIdle
    /\ LsIdle
    /\ MeasIdle
    /\ PrIdle
    /\ TrkIdle
    /\ ParIdle
    /\ NdIdle
    /\ PnIdle

CpNext == CheckPhaseCall

SpecCheckPhase == CpInit /\ [][CpNext]_vars

(* ---- Claim on checkPhase ---- *)

\* C11: checkPhase(w, '0') returns w; checkPhase(w, '1') returns w with
\* bits 1..24 inverted and bits 25..30 unchanged; applying checkPhase twice
\* with the same D30* gives the result of one application only when
\* D30* = '0', and gives w back when D30* = '1'.
C11_CheckPhase ==
    /\ cp.calls >= 2 =>
          /\ Len(cp.ret1) = 30
          /\ cp.D30Star = "0" => cp.ret1 = cp.w
          /\ cp.D30Star = "1" =>
                \A i \in 1..30 : (cp.ret1[i] # cp.w[i]) <=> (i <= 24)
    /\ cp.calls = 3 =>
          /\ (cp.ret2 = cp.ret1) <=> (cp.D30Star = "0")
          /\ cp.D30Star = "1" => cp.ret2 = cp.w

\* A word with '1' bits on both sides of bit 24 went through two calls
\* with D30* = '1'.
C11_Witness ==
    /\ cp.calls = 3
    /\ cp.D30Star = "1"
    /\ cp.w[3] = "1"
    /\ cp.w[27] = "1"

----------------------------------------------------------------------------
(* Pseudoranges (Common/calculatePseudoranges.py).  Times are kept exact   *)
(* as records [ms, frac] standing for ms + frac / TimeDen milliseconds:    *)
(* one code period codeLength / codeFreqBasis is 1 ms, and a code phase of *)
(* p chips is p * samplingFreq / TimeDen ms.                               *)

\* Bound: accumulations in a TrackLog offered to calculate_pseudoranges
MaxLogLen == 3

TimeDen == codeLength * samplingFreq

\* settings.c, and settings.startOffset = 68.802 ms as a [ms, frac] time
SpeedOfLight == 299792458
startOffset == [ms |-> 68, frac |-> 802 * (TimeDen \div 1000)]

\* inf as a time, and -inf, the value of local_time - inf
InfTime == [ms |-> Inf, frac |-> 0]
NegInfTime == [ms |-> -Inf, frac |-> 0]

TimeNorm(t) == [ms |-> t.ms + (t.frac \div TimeDen), frac |-> t.frac % TimeDen]
TimeLE(a, b) ==
    LET x == TimeNorm(a)
        y == TimeNorm(b)
    IN  x.ms < y.ms \/ (x.ms = y.ms /\ x.frac <= y.frac)
TimePlus(a, b) == [ms |-> a.ms + b.ms, frac |-> a.frac + b.frac]
TimeMinus(a, b) == [ms |-> a.ms - b.ms, frac |-> a.frac - b.frac]

\* arr[index] of a Python array of length n held as a function on 0..n-1
PyAt(arr, n, index) == arr[IF index < 0 THEN n + index ELSE index]

\* Lines 73-76 from position i on: the first i with sample > curr_meas_sample,
\* or the initial 0 when the loop ends without a break
RECURSIVE FirstAfter(_, _, _, _)
FirstAfter(absoluteSample, n, curr_meas_sample, i) ==
    IF i = n THEN 0
    ELSE IF absoluteSample[i] > curr_meas_sample THEN i
    ELSE FirstAfter(absoluteSample, n, curr_meas_sample, i + 1)

\* Mutant: the index of the accumulation after the measurement point
PrIndex_NoStepBack(absoluteSample, n, curr_meas_sample) ==
    FirstAfter(absoluteSample, n, curr_meas_sample, 0)

\* index after line 77
PrIndex(absoluteSample, n, curr_meas_sample) ==
    FirstAfter(absoluteSample, n, curr_meas_sample, 0) - 1

\* Lines 72-94 for one channel: index, the values read at it and the transmit time
ChannelTransmitTime(tr, n, sfs, tow, curr_meas_sample) ==
    LET index == PrIndex(tr.absoluteSample, n, curr_meas_sample)
        code_freq == PyAt(tr.codeFreq, n, index)
        rem_code_phase == PyAt(tr.remCodePhase, n, index)
        abs_sample == PyAt(tr.absoluteSample, n, index)
    IN  [index |-> index,
         code_freq |-> code_freq,
         rem_code_phase |-> rem_code_phase,
         abs_sample |-> abs_sample,
         transmit_time |->
            [ms |-> index - sfs + tow * 1000,
             frac |-> rem_code_phase + code_freq * (curr_meas_sample - abs_sample)]]

\* One pass of the loop over channel_list (lines 70-94)
PrChannel ==
    /\ pr.pc = "loop"
    /\ pr.todo # << >>
    /\ LET channel_nr == Head(pr.todo)
           r == ChannelTransmitTime(pr.track_results[channel_nr], pr.n,
                                    pr.sub_frame_start[channel_nr],
                                    pr.TOW[channel_nr], pr.curr_meas_sample)
       IN  pr' = [pr EXCEPT !.todo = Tail(pr.todo),
                            !.done = pr.done \cup {channel_nr},
                            !.read = [pr.read EXCEPT ![channel_nr] = r],
                            !.transmit_time = [pr.transmit_time EXCEPT
                                                  ![channel_nr] = r.transmit_time]]
    /\ UNCHANGED <<settings, channel, acqVars, trkVars, parVars, ndVars, pnVars, cpVars, measVars, lsVars, detVars, ppVars, epVars, enVars, itVars, frVars, uzVars>>

\* The latest of the transmit times of the channels in list
RECURSIVE MaxTime(_, _)
MaxTime(transmit_time, list) ==
    IF Len(list) = 1 THEN transmit_time[list[1]]
    ELSE LET m == MaxTime(transmit_time, Tail(list))
             t == transmit_time[list[1]]
         IN  IF TimeLE(m, t) THEN t ELSE m

\* Lines 97-105: the first fix sets local_time, and max() of an empty list
\* raises ValueError; pseudoranges of all channels are
\* (local_time - transmit_time) * c, held as the travel time and c
PrReturn ==
    /\ pr.pc = "loop"
    /\ pr.todo = << >>
    /\ IF pr.local_time = InfTime /\ pr.channel_list = << >>
       THEN pr' = [pr EXCEPT !.pc = "ValueError"]
       ELSE LET local_time == IF pr.local_time = InfTime
                              THEN TimePlus(MaxTime(pr.transmit_time, pr.channel_list),
                                            startOffset)
                              ELSE pr.local_time
            IN  pr' = [pr EXCEPT
                         !.pc = "return",
                         !.local_time = local_time,
                         !.pseudoranges =
                             [ch \in DOMAIN pr.transmit_time |->
                                 [travel |-> IF pr.transmit_time[ch] = InfTime
                                             THEN NegInfTime
                                             ELSE TimeMinus(local_time, pr.transmit_time[ch]),
                                  c |-> SpeedOfLight]]]
    /\ UNCHANGED <<settings, channel, acqVars, trkVars, parVars, ndVars, pnVars, cpVars, measVars, lsVars, detVars, ppVars, epVars, enVars, itVars, frVars, uzVars>>

(* ---- Arguments offered to calculate_pseudoranges ---- *)

\* A record long enough for MaxLogLen + 1 code periods of any channel
LongRecord == 4 * (MaxLogLen + 2) * samplingFreq

PrSeeds ==
    << [PRN |-> 3, acquiredFreq |-> 20, codePhase |-> 0,  status |-> "T"],
       [PRN |-> 7, acquiredFreq |-> -5, codePhase |-> 50, status |-> "T"],
       channel_template >>

PrTrackResults(s, sig) ==
    [ch \in 0..(s.numberOfChannels - 1) |-> SoloTrack(s, sig, LongRecord, PrSeeds[ch + 1])]

NoRead == [index |-> 0, code_freq |-> 0, rem_code_phase |-> 0, abs_sample |-> 0,
           transmit_time |-> InfTime]

PrInit ==
    /\ \E n \in 2..MaxLogLen, nch \in {2, 3}, sig \in SignalSet :
          LET s == [DefaultSettings EXCEPT !.msToProcess = n, !.numberOfChannels = nch]
              tr == PrTrackResults(s, sig)
          IN  /\ settings = s
              /\ \E list \in {<< >>, <<0>>, <<1>>, <<0, 1>>, <<1, 0>>},
                     c \in {0, 1}, k \in 0..(n - 1), d \in {-1, 0, 1, 9000},
                     sfs \in {0, 1},
                     lt \in {InfTime, [ms |-> 345600070, frac |-> 0]} :
                    pr = [pc |-> "loop",
                          n |-> n,
                          track_results |-> tr,
                          sub_frame_start |-> [ch \in 0..(nch - 1) |-> IF ch = 0 THEN sfs ELSE 1],
                          TOW |-> [ch \in 0..(nch - 1) |-> 345600],
                          curr_meas_sample |-> tr[c].absoluteSample[k] + d,
                          local_time |-> lt,
                          channel_list |-> list,
                          todo |-> list,
                          done |-> {},
                          read |-> [ch \in 0..(nch - 1) |-> NoRead],
                          transmit_time |-> [ch \in 0..(nch - 1) |-> InfTime],
                          pseudoranges |-> << >>]
    /\ channel = << >>
    /\ AcqIdle
    /\ UzIdle
    /\ FrIdle
    /\ ItIdle
    /\ EnIdle
    /\ EpIdle
    /\ PpIdle
    /\ DetIdle
    /\ LsIdle
    /\ MeasIdle
    /\ TrkIdle
    /\ ParIdle
    /\ NdIdle
    /\ PnIdle
    /\ CpIdle

PrNext == PrChannel \/ PrReturn

SpecPseudo == PrInit /\ [][PrNext]_vars

(* ---- Claim on the accumulation index ---- *)

\* The accumulations of a TrackLog that start at or before sample s
StartedBy(tr, n, s) == {i \in 0..(n - 1) : tr.absoluteSample[i] <= s}

LastStarted(tr, n, s) == CHOOSE i \in StartedBy(tr, n, s) : \A j \in StartedBy(tr, n, s) : j <= i

\* C12: for every channel processed, the index used is the largest i with
\* absoluteSample[i] <= s*: remCodePhase, codeFreq and absoluteSample are
\* read at i and the transmit time counts i - subFrameStart whole code
\* periods, also when s* is at or after the last accumulation.
C12_LastAccumulationIndex ==
    pr.pc # "idle" =>
        \A ch \in pr.done :
            LET tr == pr.track_results[ch]
                s == pr.curr_meas_sample
            IN  StartedBy(tr, pr.n, s) # {} =>
                   LET i == LastStarted(tr, pr.n, s)
                   IN  /\ pr.read[ch].index = i
                       /\ pr.read[ch].rem_code_phase = tr.remCodePhase[i]
                       /\ pr.read[ch].code_freq = tr.codeFreq[i]
                       /\ pr.read[ch].abs_sample = tr.absoluteSample[i]
                       /\ pr.transmit_time[ch].ms
                             = i - pr.sub_frame_start[ch] + pr.TOW[ch] * 1000

(* ---- Claim on the order of the navigation solutions ---- *)

\* step = int(settings.samplingFreq * settings.navSolPeriod / 1000): samples
\* in navSolPeriod ms, samplingFreq being samples per ms here
C13_Step == settings.navSolPeriod * samplingFreq

C13_Ordered ==
    pnpc \in {"epochs", "return", "IndexError"} =>
        /\ \A j \in 1..Len(navSolutions) :
              navSolutions[j].currMeasSample = meas.sampleStart + (j - 1) * C13_Step
        /\ \A j \in 1..(Len(navSolutions) - 1) :
              navSolutions[j].currMeasSample < navSolutions[j + 1].currMeasSample

C13_AppendOnly ==
    \/ navSolutions' = navSolutions
    \/ /\ Len(navSolutions') = Len(navSolutions) + 1
       /\ SubSeq(navSolutions', 1, Len(navSolutions)) = navSolutions

\* C13: the solutions are in strictly increasing currMeasSample order, the
\* j-th epoch (from 0) being measured at sampleStart + j * step; the list of
\* solutions only ever grows by an append at its end.
C13_IncreasingMeasSample == [](C13_Ordered) /\ [][C13_AppendOnly]_vars

\* postNavigation returned at least two solutions.
C13_Witness ==
    /\ pnpc = "return"
    /\ Len(navSolutions) >= 2
    /\ navSolutions[2].currMeasSample > navSolutions[1].currMeasSample

----------------------------------------------------------------------------
(* Least-squares position (Common/leastSquarePos.py).  The geometry is     *)
(* given by the line-of-sight unit vectors from the current position       *)
(* estimate to the satellites, one list per iteration; <<0, 0, 0>> stands  *)
(* for a satellite at the estimate itself (r == 0).  Numbers are exact     *)
(* integers; the position update of lstsq is an input of the model.        *)

n_iter == 10

\* Bound: satellites passed to least_square_pos
MaxLsSats == 4

\* Lines 79-86: the row of A for one satellite
ARow(u) == IF u = <<0, 0, 0>> THEN <<0, 0, 0, 0>> ELSE <<-u[1], -u[2], -u[3], 1>>

DesignMatrix(dirs) == [i \in 1..Len(dirs) |-> ARow(dirs[i])]

Det2(a, b, c, d) == a * d - b * c

Det3(m) ==
      m[1][1] * Det2(m[2][2], m[2][3], m[3][2], m[3][3])
    - m[1][2] * Det2(m[2][1], m[2][3], m[3][1], m[3][3])
    + m[1][3] * Det2(m[2][1], m[2][2], m[3][1], m[3][2])

\* Rows 2..4 of m without column c
Minor(m, c) ==
    [i \in 1..3 |-> [j \in 1..3 |-> m[i + 1][IF j < c THEN j ELSE j + 1]]]

Det4(m) ==
      m[1][1] * Det3(Minor(m, 1)) - m[1][2] * Det3(Minor(m, 2))
    + m[1][3] * Det3(Minor(m, 3)) - m[1][4] * Det3(Minor(m, 4))

\* np.linalg.matrix_rank(A) >= 4: some four rows of A are independent
FullRank(A) ==
    \E r \in [1..4 -> 1..Len(A)] :
        /\ \A i \in 1..3 : r[i] < r[i + 1]
        /\ Det4([i \in 1..4 |-> A[r[i]]]) # 0

VecAdd(p, x) == [i \in 1..4 |-> p[i] + x[i]]

\* Mutant: the position estimate reached so far is returned on failure
FailureSolution_Partial(l) ==
    [pos |-> l.pos, el |-> l.el, dop |-> [kind |-> "inf", A |-> << >>]]

\* return np.zeros(4), el, az, np.inf * np.ones(5)
FailureSolution(l) ==
    [pos |-> <<0, 0, 0, 0>>, el |-> l.el, dop |-> [kind |-> "inf", A |-> << >>]]

\* Elevation topocent() finds for satellite i at iteration it
ElevationOf(u, it) == IF u[3] > 0 THEN 60 + it ELSE IF u[3] = 0 THEN it ELSE -60

\* One pass of the loop over it (lines 48-97): el of every satellite is
\* refreshed from the second pass on, A is rebuilt, a rank below 4 returns
\* the failure solution, else pos is updated
LsIteration ==
    /\ ls.pc = "iterate"
    /\ ls.it < n_iter
    /\ LET dirs == IF ls.it = ls.changeAt THEN ls.dirsLater ELSE ls.dirs
           A == DesignMatrix(dirs)
           el == IF ls.it = 0 THEN ls.el
                 ELSE [i \in 1..Len(dirs) |-> ElevationOf(dirs[i], ls.it)]
           l1 == [ls EXCEPT !.A = A, !.el = el,
                            !.ranks = Append(ls.ranks, FullRank(A))]
       IN  IF ~FullRank(A)
           THEN ls' = [l1 EXCEPT !.pc = "return", !.result = FailureSolution(l1)]
           ELSE ls' = [l1 EXCEPT !.pos = VecAdd(ls.pos, ls.x), !.it = ls.it + 1]
    /\ UNCHANGED <<settings, channel, acqVars, trkVars, parVars, ndVars, pnVars, cpVars, prVars, measVars, detVars, ppVars, epVars, enVars, itVars, frVars, uzVars>>

\* Lines 100-108: DOP from Q = inv(A.T @ A) of the last A
LsDop ==
    /\ ls.pc = "iterate"
    /\ ls.it = n_iter
    /\ ls' = [ls EXCEPT !.pc = "return",
                        !.result = [pos |-> ls.pos, el |-> ls.el,
                                    dop |-> [kind |-> "Q", A |-> ls.A]]]
    /\ UNCHANGED <<settings, channel, acqVars, trkVars, parVars, ndVars, pnVars, cpVars, prVars, measVars, detVars, ppVars, epVars, enVars, itVars, frVars, uzVars>>

(* ---- Geometries offered to least_square_pos ---- *)

Axes == <<(<<1, 0, 0>>), (<<-1, 0, 0>>), (<<0, 1, 0>>), (<<0, -1, 0>>), (<<0, 0, 1>>),
         (<<0, 0, -1>>), (<<0, 0, 0>>)>>

\* Lists of n different line-of-sight directions
DirLists(n) ==
    {[i \in 1..n |-> Axes[c[i]]] :
        c \in {f \in [1..n -> 1..6] : \A i \in 1..(n - 1) : f[i] < f[i + 1]}}

\* The same satellites after one of them has moved, possibly onto the estimate
Moved(dirs) ==
    {[dirs EXCEPT ![i] = Axes[a]] : i \in 1..Len(dirs), a \in 1..7}

LsInit ==
    /\ \E n \in 3..MaxLsSats :
          \E dirs \in DirLists(n), changeAt \in {0, 1, 9, n_iter}, x \in {<<3, -2, 1, 5>>} :
           \E later \in Moved(dirs) :
             /\ ls = [pc |-> "iterate", it |-> 0, pos |-> <<0, 0, 0, 0>>,
                      dirs |-> dirs, dirsLater |-> later, changeAt |-> changeAt, x |-> x,
                      A |-> [i \in 1..n |-> <<0, 0, 0, 0>>],
                      el |-> [i \in 1..n |-> 0],
                      ranks |-> << >>,
                      result |-> [pos |-> << >>, el |-> << >>,
                                  dop |-> [kind |-> "none", A |-> << >>]]]
    /\ settings = DefaultSettings
    /\ channel = << >>
    /\ AcqIdle
    /\ UzIdle
    /\ FrIdle
    /\ ItIdle
    /\ EnIdle
    /\ EpIdle
    /\ PpIdle
    /\ DetIdle
    /\ TrkIdle
    /\ ParIdle
    /\ NdIdle
    /\ PnIdle
    /\ CpIdle
    /\ PrIdle
    /\ MeasIdle

LsNext == LsIteration \/ LsDop

SpecLeastSquares == LsInit /\ [][LsNext]_vars

(* ---- Claim on the failure solution ---- *)

\* C15: as soon as A has rank < 4 at an iteration the solver returns a
\* solution with position and clock bias all zero and infinite DOP; DOP is
\* computed from inv(A^T A) only when all 10 iterations had rank 4.
C15_RankDeficientReturnsZero ==
    /\ ls.pc = "iterate" => \A k \in 1..Len(ls.ranks) : ls.ranks[k]
    /\ ls.pc = "return" =>
          IF \E k \in 1..Len(ls.ranks) : ~ls.ranks[k]
          THEN /\ ~ls.ranks[Len(ls.ranks)]
               /\ \A k \in 1..(Len(ls.ranks) - 1) : ls.ranks[k]
               /\ ls.result.pos = <<0, 0, 0, 0>>
               /\ ls.result.dop.kind = "inf"
          ELSE /\ Len(ls.ranks) = 10
               /\ ls.result.dop.kind = "Q"
               /\ ls.result.dop.A = ls.A

\* The geometry became rank deficient after the position estimate had
\* already been updated, and the solver returned.
C15_Witness ==
    /\ ls.pc = "return"
    /\ Len(ls.ranks) > 1
    /\ ~ls.ranks[Len(ls.ranks)]
    /\ ls.pos # <<0, 0, 0, 0>>

----------------------------------------------------------------------------
(* ---- Claim on epochs that cannot be solved ---- *)

\* C14: an epoch with fewer than 4 usable satellites or with rank-deficient
\* geometry is not fatal: it is reported as an invalid solution with
\* infinite DOP and the epochs after it are still processed, so when
\* postNavigation returns from the epoch loop it has reported every one of
\* the measNrSum epochs.
C14_FewSatellitesNonFatal ==
    pnpc = "return" => Len(navSolutions) = measNrSum

----------------------------------------------------------------------------
(* C/A code detection (Include/acq.py, Include/acquire_gpu.py) and the     *)
(* coarse search of acquisition() (Include/acquisition.py).  Spectra are   *)
(* arrays indexed 0..N-1; of an array only the positions of its elements   *)
(* are modelled: data_idx[k] and tmpl_idx[k] are the indices of the data   *)
(* spectrum and of the template spectrum that meet at position k of the    *)
(* product.  A frequency f is kept as the integer N*f (Hz), N the FFT      *)
(* length.  None is the empty set, a present value x is {x}.               *)

\* Bounds: coherent and non-coherent counts, samples per code period
MaxCoherent == 2
MaxNonCoherent == 2
MaxSamplesPerCode == 4

None == {}

\* int(round(codeLength * samplingFreq / codeFreqBasis)), samplingFreq in kHz
samples_per_code(fs) == (2 * codeLength * fs + codeFreqBasis) \div (2 * codeFreqBasis)

\* Mutant: the upper half of the grid is not folded to negative frequencies
fftfreq_Unfolded(n, fsHz) == [k \in 0..(n - 1) |-> k * fsHz]

\* np.fft.fftfreq(n, 1/fsHz), every value multiplied by n
fftfreq(n, fsHz) ==
    [k \in 0..(n - 1) |-> IF k <= (n - 1) \div 2 THEN k * fsHz ELSE (k - n) * fsHz]

\* np.roll(a, shift) of an array indexed from 0
roll(a, n, shift) == [k \in 0..(n - 1) |-> a[(k - shift) % n]]

arange(n) == [k \in 0..(n - 1) |-> k]

\* freq_mask and n_freq_bins for the band [-B, +B]
InBand(v, n, B) == v >= -(B * n) /\ v <= B * n
n_freq_bins(freqs, n, B) == Cardinality({k \in 0..(n - 1) : InBand(freqs[k], n, B)})

\* np.roll(freqs, initial_shift)[:n_freq_bins], as a sequence
FreqTable(freqs, n, F, shift) == [j \in 1..F |-> roll(freqs, n, shift)[j - 1]]

Backends == {"detect_ca_sat", "detect_ca_sat_gpu", "acquire_gpu"}

InsufficientData(d) ==
    [success |-> FALSE, error_message |-> {"Insufficient Data"},
     detector |-> None, freq_table |-> None]

\* Position arrays at the first Doppler bin: the reference rolls the data
\* spectrum by initial_shift, the backends gather the template spectrum
\* through idx
FirstDataIdx(b, n, shift) ==
    IF b = "detect_ca_sat" THEN roll(arange(n), n, shift) ELSE arange(n)

FirstTmplIdx(b, n, shift) ==
    CASE b = "detect_ca_sat"     -> arange(n)
      [] b = "detect_ca_sat_gpu" -> [k \in 0..(n - 1) |-> (k + shift) % n]
      [] b = "acquire_gpu"       -> [k \in 0..(n - 1) |-> (k - shift) % n]

\* Position arrays of the next Doppler bin
NextDataIdx(b, n, idx) == IF b = "detect_ca_sat" THEN roll(idx, n, -1) ELSE idx

NextTmplIdx(b, n, idx) ==
    CASE b = "detect_ca_sat"     -> idx
      [] b = "detect_ca_sat_gpu" -> [k \in 0..(n - 1) |-> (idx[k] - 1) % n]
      [] b = "acquire_gpu"       -> [k \in 0..(n - 1) |-> (idx[k] + 1) % n]

\* From the call to the first Doppler bin: too little data returns the
\* failure record, else the Doppler table and the first position arrays
DetectStart ==
    /\ det.pc = "call"
    /\ det.backend \in Backends
    /\ LET spc == samples_per_code(settings.samplingFreq)
           n == 2 * spc * det.n_coherent
           total_samples == spc * (2 * det.n_coherent * det.n_noncoherent)
           freqs == fftfreq(n, 1000 * settings.samplingFreq)
           F == n_freq_bins(freqs, n, settings.acqSearchBand)
           shift == (F - 1) \div 2
       IN  IF det.long_data_len < total_samples
           THEN det' = [det EXCEPT !.pc = "done", !.result = InsufficientData(det)]
           ELSE det' = [det EXCEPT !.pc = "bins", !.N = n, !.F = F,
                                   !.initial_shift = shift,
                                   !.freq_table = FreqTable(freqs, n, F, shift),
                                   !.noncoh_idx = 0, !.i = 0,
                                   !.data_idx = FirstDataIdx(det.backend, n, shift),
                                   !.tmpl_idx = FirstTmplIdx(det.backend, n, shift)]
    /\ UNCHANGED <<settings, channel, acqVars, trkVars, parVars, ndVars, pnVars, cpVars, prVars, measVars, lsVars, ppVars, epVars, enVars, itVars, frVars, uzVars>>

\* The reference runs the bin loop once per non-coherent block, the
\* backends once for all blocks
Blocks(d) == IF d.backend = "detect_ca_sat" THEN d.n_noncoherent ELSE 1

\* One Doppler bin: the product of the two spectra as they stand gives row
\* i of the detector, then the arrays move on to the next bin; after the
\* last bin of a block the reference starts the next block
DetectBin ==
    /\ det.pc = "bins"
    /\ det.noncoh_idx < Blocks(det)
    /\ LET row == [noncoh_idx |-> det.noncoh_idx, i |-> det.i,
                   data |-> det.data_idx, tmpl |-> det.tmpl_idx]
           last == det.i + 1 = det.F
       IN  det' = [det EXCEPT
                     !.rows = Append(det.rows, row),
                     !.i = IF last THEN 0 ELSE det.i + 1,
                     !.noncoh_idx = IF last THEN det.noncoh_idx + 1 ELSE det.noncoh_idx,
                     !.data_idx = IF last
                                  THEN FirstDataIdx(det.backend, det.N, det.initial_shift)
                                  ELSE NextDataIdx(det.backend, det.N, det.data_idx),
                     !.tmpl_idx = IF last /\ det.backend = "detect_ca_sat"
                                  THEN FirstTmplIdx(det.backend, det.N, det.initial_shift)
                                  ELSE NextTmplIdx(det.backend, det.N, det.tmpl_idx)]
    /\ UNCHANGED <<settings, channel, acqVars, trkVars, parVars, ndVars, pnVars, cpVars, prVars, measVars, lsVars, ppVars, epVars, enVars, itVars, frVars, uzVars>>

\* The success record
DetectReturn ==
    /\ det.pc = "bins"
    /\ det.noncoh_idx = Blocks(det)
    /\ det' = [det EXCEPT !.pc = "done",
                          !.result = [success |-> TRUE, error_message |-> None,
                                      detector |-> {det.rows},
                                      freq_table |-> {det.freq_table}]]
    /\ UNCHANGED <<settings, channel, acqVars, trkVars, parVars, ndVars, pnVars, cpVars, prVars, measVars, lsVars, ppVars, epVars, enVars, itVars, frVars, uzVars>>

\* len(long_signal[idx_start:idx_end])
SliceLen(len, a, b) == Max(0, Min(len, b) - Min(len, a))

\* acquisition(): the coarse search correlates the 2-ms windows that are
\* complete and skips the others; the acqResults it returns carry neither
\* a success flag nor an error
CoarseSearch ==
    /\ det.pc = "call"
    /\ det.backend = "acquisition"
    /\ LET spc == samples_per_code(settings.samplingFreq)
           used == {w \in 0..(det.n_noncoherent - 1) :
                      ~(SliceLen(det.long_data_len, w * spc, (w + 2) * spc) < spc * 2)}
       IN  det' = [det EXCEPT !.pc = "done", !.N = 2 * spc,
                     !.result = [success |-> TRUE, error_message |-> None,
                                 detector |-> {used}, freq_table |-> {"coarse_freq_bins"}]]
    /\ UNCHANGED <<settings, channel, acqVars, trkVars, parVars, ndVars, pnVars, cpVars, prVars, measVars, lsVars, ppVars, epVars, enVars, itVars, frVars, uzVars>>

\* Search bands, Hz
Bands == {500, 1000, 1500}

DetInit ==
    /\ \E b \in Backends \cup {"acquisition"}, fs \in (MaxSamplesPerCode - 1)..MaxSamplesPerCode,
          B \in Bands, M \in 1..MaxCoherent, Nnc \in 1..MaxNonCoherent :
          \E len \in {0, 2 * M * Nnc * fs - 1, 2 * M * Nnc * fs, 2 * M * Nnc * fs - fs,
                      2 * M * Nnc * fs + fs} :
             /\ b = "acquisition" => M = 1
             /\ settings = [DefaultSettings EXCEPT !.samplingFreq = fs, !.acqSearchBand = B]
             /\ det = [pc |-> "call", backend |-> b, long_data_len |-> len,
                       n_coherent |-> M, n_noncoherent |-> Nnc,
                       N |-> 0, F |-> 0, initial_shift |-> 0, freq_table |-> << >>,
                       noncoh_idx |-> 0, i |-> 0, data_idx |-> << >>, tmpl_idx |-> << >>,
                       rows |-> << >>,
                       result |-> [success |-> FALSE, error_message |-> None,
                                   detector |-> None, freq_table |-> None]]
    /\ channel = << >>
    /\ AcqIdle
    /\ UzIdle
    /\ FrIdle
    /\ ItIdle
    /\ EnIdle
    /\ EpIdle
    /\ PpIdle
    /\ TrkIdle
    /\ ParIdle
    /\ NdIdle
    /\ PnIdle
    /\ CpIdle
    /\ PrIdle
    /\ MeasIdle
    /\ LsIdle

DetNext == DetectStart \/ DetectBin \/ DetectReturn \/ CoarseSearch

SpecDetect == DetInit /\ [][DetNext]_vars

(* ---- Claims on detection ---- *)

\* Samples in 2*M*N_nc code periods
C16_Needed == 2 * det.n_coherent * det.n_noncoherent * samples_per_code(settings.samplingFreq)

\* C16: acquisition given fewer samples than 2*M*N_nc code periods returns
\* a failure record "Insufficient Data" with no detector and no frequency
\* table instead of a result computed from partial data; with at least that
\* many samples it returns a success record with both present.
C16_InsufficientDataReported ==
    det.pc = "done" =>
        IF det.long_data_len < C16_Needed
        THEN /\ ~det.result.success
             /\ det.result.error_message = {"Insufficient Data"}
             /\ det.result.detector = None
             /\ det.result.freq_table = None
        ELSE /\ det.result.success
             /\ det.result.detector # None
             /\ det.result.freq_table # None

\* C17: at every Doppler bin i every backend multiplies the data spectrum
\* with the template spectrum at the relative circular offset
\* (initial_shift - i) mod N, the offset of the reference detect_ca_sat.
C17_BackendsSameOffset ==
    det.backend \in Backends =>
        \A r \in 1..Len(det.rows) :
            \A k \in 0..(det.N - 1) :
                (det.rows[r].tmpl[k] - det.rows[r].data[k]) % det.N
                    = (det.initial_shift - det.rows[r].i) % det.N


\* The frequencies of the FFT grid that lie in [-B, +B], each times N
C19_GridInBand ==
    {v \in {fftfreq(det.N, 1000 * settings.samplingFreq)[k] : k \in 0..(det.N - 1)} :
        InBand(v, det.N, settings.acqSearchBand)}

\* The Doppler table is built, by the reference detect_ca_sat
C19_TableBuilt == det.backend = "detect_ca_sat" /\ det.pc = "bins"

\* The table has one entry per grid frequency in the band, every entry is
\* in the band, consecutive entries are 1/(k * M * T_code) apart, with
\* T_code = codeLength / codeFreqBasis ms, and the entry at initial_shift is 0
C19_Table(k) ==
    /\ det.F = Cardinality(C19_GridInBand)
    /\ Len(det.freq_table) = det.F
    /\ \A j \in 1..det.F : InBand(det.freq_table[j], det.N, settings.acqSearchBand)
    /\ \A j \in 1..(det.F - 1) :
          (det.freq_table[j + 1] - det.freq_table[j]) * k * det.n_coherent * codeLength
              = det.N * codeFreqBasis * 1000
    /\ det.initial_shift = (det.F - 1) \div 2
    /\ det.freq_table[det.initial_shift + 1] = 0

----------------------------------------------------------------------------
(* The pipeline (Include/postProcessing.py).  log records the begin and   *)
(* the end of every stage called; fid is "none", "open" or "closed".      *)

\* Bound: rows of acqResults
MaxAcqRows == 2

Begin(stage) == [stage |-> stage, ev |-> "begin"]
End(stage) == [stage |-> stage, ev |-> "end"]

\* Mutant: any acqResults that is not None lets processing go on
SignalAcquired_NotNone(acq) == acq # None

\* acqResults is not None and np.any(acqResults['carrFreq'])  (line 140)
SignalAcquired(acq) ==
    acq # None /\ \E a \in acq : \E r \in 1..Len(a) : a[r] # 0

\* Lines 72-84: open the data file and seek
PpOpen ==
    /\ pp.pc = "open"
    /\ IF pp.fileExists
       THEN pp' = [pp EXCEPT !.pc = "acquisition", !.fid = "open"]
       ELSE pp' = [pp EXCEPT !.pc = "RuntimeError"]
    /\ UNCHANGED <<settings, channel, acqVars, trkVars, parVars, ndVars, pnVars, cpVars, prVars, measVars, lsVars, detVars, epVars, enVars, itVars, frVars, uzVars>>

\* Lines 88-116: read the data; an unsupported dataType or a short read
\* raises ValueError, else acquisition() is called
PpRead ==
    /\ pp.pc = "acquisition"
    /\ pp.skipAcquisition = 0
    /\ IF ~pp.dataTypeKnown \/ ~pp.enoughData
       THEN pp' = [pp EXCEPT !.pc = "ValueError"]
       ELSE pp' = [pp EXCEPT !.pc = "acquiring", !.log = Append(pp.log, Begin("acquisition"))]
    /\ UNCHANGED <<settings, channel, acqVars, trkVars, parVars, ndVars, pnVars, cpVars, prVars, measVars, lsVars, detVars, epVars, enVars, itVars, frVars, uzVars>>

\* Lines 116-120: acquisition() returns acqResults, which are saved
PpAcquired ==
    /\ pp.pc = "acquiring"
    /\ pp' = [pp EXCEPT !.pc = "check", !.acqResults = {pp.carrFreq},
                        !.log = Append(pp.log, End("acquisition"))]
    /\ UNCHANGED <<settings, channel, acqVars, trkVars, parVars, ndVars, pnVars, cpVars, prVars, measVars, lsVars, detVars, epVars, enVars, itVars, frVars, uzVars>>

\* Lines 122-134: load the saved results; a failure closes the file and returns
PpLoad ==
    /\ pp.pc = "acquisition"
    /\ pp.skipAcquisition # 0
    /\ IF pp.load = "ok"
       THEN pp' = [pp EXCEPT !.pc = "check",
                             !.acqResults = IF pp.savedNone THEN None ELSE {pp.carrFreq},
                             !.log = pp.log \o <<Begin("load"), End("load")>>]
       ELSE pp' = [pp EXCEPT !.pc = "return", !.fid = "closed",
                             !.log = Append(pp.log, Begin("load"))]
    /\ UNCHANGED <<settings, channel, acqVars, trkVars, parVars, ndVars, pnVars, cpVars, prVars, measVars, lsVars, detVars, epVars, enVars, itVars, frVars, uzVars>>

\* Lines 140-147: pre_run only if a signal was acquired, else close and return
PpCheck ==
    /\ pp.pc = "check"
    /\ IF SignalAcquired(pp.acqResults)
       THEN pp' = [pp EXCEPT !.pc = "pre_run", !.log = Append(pp.log, Begin("pre_run"))]
       ELSE pp' = [pp EXCEPT !.pc = "return", !.fid = "closed"]
    /\ UNCHANGED <<settings, channel, acqVars, trkVars, parVars, ndVars, pnVars, cpVars, prVars, measVars, lsVars, detVars, epVars, enVars, itVars, frVars, uzVars>>

\* Lines 141-153: pre_run returns, tracking is called
PpTrack ==
    /\ pp.pc = "pre_run"
    /\ pp' = [pp EXCEPT !.pc = "tracking",
                        !.log = pp.log \o <<End("pre_run"), Begin("tracking")>>]
    /\ UNCHANGED <<settings, channel, acqVars, trkVars, parVars, ndVars, pnVars, cpVars, prVars, measVars, lsVars, detVars, epVars, enVars, itVars, frVars, uzVars>>

\* Lines 153-164: tracking returns, the file is closed, postNavigation is called
PpNavigate ==
    /\ pp.pc = "tracking"
    /\ pp' = [pp EXCEPT !.pc = "postNavigation", !.fid = "closed",
                        !.log = pp.log \o <<End("tracking"), Begin("postNavigation")>>]
    /\ UNCHANGED <<settings, channel, acqVars, trkVars, parVars, ndVars, pnVars, cpVars, prVars, measVars, lsVars, detVars, epVars, enVars, itVars, frVars, uzVars>>

\* Lines 164-179: postNavigation returns, results are saved and plotted
PpDone ==
    /\ pp.pc = "postNavigation"
    /\ pp' = [pp EXCEPT !.pc = "return", !.log = Append(pp.log, End("postNavigation"))]
    /\ UNCHANGED <<settings, channel, acqVars, trkVars, parVars, ndVars, pnVars, cpVars, prVars, measVars, lsVars, detVars, epVars, enVars, itVars, frVars, uzVars>>

\* carrFreq columns of acqResults: 0 marks a PRN that was not acquired
CarrFreqs == UNION {[1..n -> {0, 1, 9548000}] : n \in 1..MaxAcqRows}

PpInit ==
    /\ \E skip \in {0, 1}, exists \in BOOLEAN, known \in BOOLEAN, enough \in BOOLEAN,
          load \in {"ok", "FileNotFoundError", "Exception"}, savedNone \in BOOLEAN,
          cf \in CarrFreqs :
          pp = [pc |-> "open", skipAcquisition |-> skip, fileExists |-> exists,
                dataTypeKnown |-> known, enoughData |-> enough, load |-> load,
                savedNone |-> savedNone, carrFreq |-> cf,
                fid |-> "none", acqResults |-> None, log |-> << >>]
    /\ settings = DefaultSettings
    /\ channel = << >>
    /\ AcqIdle
    /\ UzIdle
    /\ FrIdle
    /\ ItIdle
    /\ EnIdle
    /\ EpIdle
    /\ TrkIdle
    /\ ParIdle
    /\ NdIdle
    /\ PnIdle
    /\ CpIdle
    /\ PrIdle
    /\ MeasIdle
    /\ LsIdle
    /\ DetIdle

PpNext ==
    PpOpen \/ PpRead \/ PpAcquired \/ PpLoad \/ PpCheck \/ PpTrack \/ PpNavigate \/ PpDone

SpecPipeline == PpInit /\ [][PpNext]_vars

(* ---- Claim on the order of the stages ---- *)

C18_Stages(first) == <<first, "pre_run", "tracking", "postNavigation">>

\* Begin and end of the four stages, one after the other
C18_FullLog(first) ==
    [j \in 1..8 |-> IF j % 2 = 1 THEN Begin(C18_Stages(first)[(j + 1) \div 2])
                    ELSE End(C18_Stages(first)[j \div 2])]

C18_IsPrefix(s, t) == Len(s) <= Len(t) /\ \A j \in 1..Len(s) : s[j] = t[j]

C18_Began(stage) == \E j \in 1..Len(pp.log) : pp.log[j] = Begin(stage)

\* No signal: the results are there and hold no non-zero carrFreq, or
\* loading the saved results failed
C18_NoSignal ==
    \/ /\ pp.pc \in {"check", "return"}
       /\ C18_Began("acquisition") \/ (C18_Began("load") /\ pp.load = "ok")
       /\ pp.acqResults = None \/ \A a \in pp.acqResults : \A r \in 1..Len(a) : a[r] = 0
    \/ C18_Began("load") /\ pp.load # "ok"

\* C18: the stages begin in the order acquisition (or load, when
\* skipAcquisition = 1), pre-run, tracking, post-navigation, each after the
\* one before has ended; with no signal acquired or no saved results loaded
\* none of pre-run, tracking and navigation runs, and the file is closed
\* when postProcessing returns.
C18_StageOrder ==
    /\ C18_IsPrefix(pp.log,
                    C18_FullLog(IF pp.skipAcquisition = 0 THEN "acquisition" ELSE "load"))
    /\ C18_NoSignal =>
          /\ ~C18_Began("pre_run") /\ ~C18_Began("tracking") /\ ~C18_Began("postNavigation")
          /\ pp.pc = "return" => pp.fid = "closed"

\* postProcessing has returned without a signal, the file closed
C18_Witness ==
    /\ pp.pc = "return"
    /\ C18_NoSignal
    /\ pp.skipAcquisition = 0
    /\ pp.fid = "closed"

\* A full run: all four stages have ended
C18_FullRun == pp.pc = "return" /\ Len(pp.log) = 8

----------------------------------------------------------------------------
(* Ephemeris decoding (Include/ephemeris.py).  Bits are the strings "0"    *)
(* and "1"; of the ephemeris fields the integer ones of the structure      *)
(* above are decoded, with idValid and TOW.                                *)

\* Bound: TOW counts tried are 0..MaxTowCount and the same distance below 2^17 - 1
MaxTowCount == 2

\* s[a:b] of a Python list
Slice(s, a, b) == SubSeq(s, a + 1, b)

RECURSIVE BinToInt(_)
\* int(''.join(b), 2)
BinToInt(b) ==
    IF Len(b) = 0 THEN 0
    ELSE 2 * BinToInt(SubSeq(b, 1, Len(b) - 1)) + (IF b[Len(b)] = "1" THEN 1 ELSE 0)

RECURSIVE CorrectPolarity(_, _, _)
\* Lines 72-76, from word j on: each word is corrected with the last bit of
\* the word before it
CorrectPolarity(subframe, D30Star_local, j) ==
    IF j = 10 THEN [subframe |-> subframe, D30Star_local |-> D30Star_local]
    ELSE LET word == checkPhase(Slice(subframe, 30 * j, 30 * (j + 1)), D30Star_local)
             sub == [k \in 1..Len(subframe) |->
                        IF k > 30 * j /\ k <= 30 * (j + 1) THEN word[k - 30 * j]
                        ELSE subframe[k]]
         IN  CorrectPolarity(sub, sub[30 * (j + 1)], j + 1)

\* Lines 85-120: the fields a subframe of this ID sets
DecodeSubframe(e, subframe, subframeID) ==
    CASE subframeID = 1 ->
            [e EXCEPT !.health = BinToInt(Slice(subframe, 76, 82)),
                        !.IODC = BinToInt(Slice(subframe, 82, 84) \o Slice(subframe, 196, 204)),
                        !.idValid[1] = 1]
      [] subframeID = 2 ->
            [e EXCEPT !.IODE_sf2 = BinToInt(Slice(subframe, 60, 68)), !.idValid[2] = 2]
      [] subframeID = 3 ->
            [e EXCEPT !.IODE_sf3 = BinToInt(Slice(subframe, 270, 278)), !.idValid[3] = 3]
      [] OTHER -> e

\* Mutant: the TOW count taken as the TOW of the first subframe
TOWOf_NoOffset(subframe) == BinToInt(Slice(subframe, 30, 47)) * 6

\* Line 126
TOWOf(subframe) == BinToInt(Slice(subframe, 30, 47)) * 6 - 30

\* Lines 66-120, one pass of the loop over the five subframes
EphSubframe ==
    /\ ep.pc = "subframes"
    /\ ep.i < 5
    /\ LET cut == Slice(ep.bits, 300 * ep.i, 300 * (ep.i + 1))
           c == CorrectPolarity(cut, ep.D30Star_local, 0)
           subframeID == BinToInt(Slice(c.subframe, 49, 52))
       IN  ep' = [ep EXCEPT !.i = ep.i + 1,
                            !.subframe = c.subframe,
                            !.D30Star_local = c.D30Star_local,
                            !.subframeID = subframeID,
                            !.eph = DecodeSubframe(ep.eph, c.subframe, subframeID)]
    /\ UNCHANGED <<settings, channel, acqVars, trkVars, parVars, ndVars, pnVars, cpVars, prVars, measVars, lsVars, detVars, ppVars, enVars, itVars, frVars, uzVars>>

\* Lines 126-128
EphReturn ==
    /\ ep.pc = "subframes"
    /\ ep.i = 5
    /\ ep' = [ep EXCEPT !.pc = "return",
                        !.TOW = TOWOf(ep.subframe),
                        !.eph = [ep.eph EXCEPT !.TOW = TOWOf(ep.subframe)]]
    /\ UNCHANGED <<settings, channel, acqVars, trkVars, parVars, ndVars, pnVars, cpVars, prVars, measVars, lsVars, detVars, ppVars, enVars, itVars, frVars, uzVars>>

(* ---- Bit streams offered to ephemeris ---- *)

\* Bit j (1 = most significant) of n written with width bits
BitOf(n, width, j) == IF (n \div (2 ^ (width - j))) % 2 = 1 THEN "1" ELSE "0"

\* A data bit as transmitted after a word that ended with d30
Transmitted(bit, d30) == IF d30 = "1" THEN InvertBit(bit) ELSE bit

\* The content of a subframe: the 17 bits of the TOW count, the 3 bits of
\* the ID and one payload bit at the end of the health, IODC, IODE_sf2 and
\* IODE_sf3 fields
Content(id, tow, payload, k) ==
    IF k >= 31 /\ k <= 47 THEN BitOf(tow, 17, k - 30)
    ELSE IF k >= 50 /\ k <= 52 THEN BitOf(id, 3, k - 49)
    ELSE IF k \in {68, 82, 204, 278} THEN payload
    ELSE "0"

\* A subframe as received: words 1 and 2 end with w1last and w2last, so the
\* data bits of words 2 and 3 arrive inverted when these are "1"
RawSubframe(id, tow, w1last, w2last, payload) ==
    [k \in 1..300 |->
        IF k = 30 THEN w1last
        ELSE IF k = 60 THEN w2last
        ELSE IF k >= 31 /\ k <= 54 THEN Transmitted(Content(id, tow, payload, k), w1last)
        ELSE IF k >= 61 /\ k <= 84 THEN Transmitted(Content(id, tow, payload, k), w2last)
        ELSE Content(id, tow, payload, k)]

\* The IDs of five subframes in a row, from any first subframe; and streams
\* whose subframes all have the same ID
IdPatterns ==
    {[s \in 1..5 |-> ((first + s - 2) % 5) + 1] : first \in 1..5}
        \cup {[s \in 1..5 |-> id] : id \in {0, 4}}

TowCounts == (0..MaxTowCount) \cup {131071 - c : c \in 0..MaxTowCount}

EpInit ==
    /\ \E ids \in IdPatterns, tow \in TowCounts, w1last \in {"0", "1"}, w2last \in {"0", "1"},
          payload \in {"0", "1"}, D30Star \in {"0", "1"} :
          LET sf(s) == RawSubframe(ids[s], (tow + 131072 - (5 - s)) % 131072, w1last,
                                   w2last, payload)
          IN  ep = [pc |-> "subframes",
                    bits |-> sf(1) \o sf(2) \o sf(3) \o sf(4) \o sf(5),
                    D30Star |-> D30Star, D30Star_local |-> D30Star,
                    i |-> 0, subframe |-> << >>, subframeID |-> 0,
                    eph |-> eph_structure_init
                              @@ [idValid |-> <<0, 0, 0, 0, 0>>, TOW |-> EmptyList],
                    TOW |-> EmptyList]
    /\ settings = DefaultSettings
    /\ channel = << >>
    /\ AcqIdle
    /\ UzIdle
    /\ FrIdle
    /\ ItIdle
    /\ EnIdle
    /\ TrkIdle
    /\ ParIdle
    /\ NdIdle
    /\ PnIdle
    /\ CpIdle
    /\ PrIdle
    /\ MeasIdle
    /\ LsIdle
    /\ DetIdle
    /\ PpIdle

EpNext == EphSubframe \/ EphReturn

SpecEphemeris == EpInit /\ [][EpNext]_vars

(* ---- Claim on the TOW ephemeris returns ---- *)

\* Bits 1201..1500 of the stream: the fifth subframe as received
C20_Last == SubSeq(ep.bits, 1201, 1500)

\* Its bits 31..47 with the polarity set by bit 30, the last bit of word 1
C20_TowCount ==
    BinToInt([j \in 1..17 |->
                 IF C20_Last[30] = "1" THEN InvertBit(C20_Last[30 + j])
                 ELSE C20_Last[30 + j]])

\* The ID of the fifth subframe, bits 50..52, polarity as for the TOW count
C20_LastID ==
    BinToInt([j \in 1..3 |->
                 IF C20_Last[30] = "1" THEN InvertBit(C20_Last[49 + j])
                 ELSE C20_Last[49 + j]])

C20_Returned ==
    ep.pc = "return" => /\ ep.TOW = 6 * C20_TowCount - 30
                        /\ ep.eph.TOW = ep.TOW

\* A subframe whose ID is not 1, 2 or 3 leaves eph as it was
C20_OthersIgnored ==
    (ep'.pc = "subframes" /\ ep'.i = ep.i + 1 /\ ep'.subframeID \notin {1, 2, 3})
        => ep'.eph = ep.eph

\* C20: ephemeris() returns TOW = 6 * (17-bit TOW count in bits 31..47 of
\* the fifth subframe after polarity correction) - 30, whatever the IDs of
\* the five subframes, and stores it in eph['TOW']; a subframe with ID 4
\* or 5 changes no other field of eph.
C20_TOWFromLastSubframe == [](C20_Returned) /\ [][C20_OthersIgnored]_vars

\* The fifth subframe has ID 4, is received inverted, and carries a TOW
\* count other than 0
C20_Witness ==
    /\ ep.pc = "return"
    /\ C20_LastID = 4
    /\ C20_Last[30] = "1"
    /\ C20_TowCount > 0
    /\ ep.eph.idValid = <<1, 2, 3, 0, 0>>

----------------------------------------------------------------------------
(* The epoch loop of postNavigation (lines 110-201) together with          *)
(* calculate_pseudoranges, on TrackLogs of a few milliseconds produced by  *)
(* the tracking model; navSolPeriod is 1 or 2 ms so that several epochs    *)
(* fit into such a log.  The channels are those left in activeChnList      *)
(* after decoding, each with its subFrameStart and TOW.                    *)

\* Bound: accumulations in the TrackLogs of the epoch loop
MaxEpochLog == 5

\* satElev[ch-1] of an array held as a sequence
ElevInRange(elev, ch) == ch - 1 < Len(elev)
ElevAt(elev, ch) == IF ch - 1 < 0 THEN elev[Len(elev)] ELSE elev[ch]

\* Mutant: local time starts at the latest transmit time itself
LocalTimeInit_NoOffset(transmit_time, channel_list) == MaxTime(transmit_time, channel_list)

\* calculatePseudoranges.py lines 98-99
LocalTimeInit(transmit_time, channel_list) ==
    TimePlus(MaxTime(transmit_time, channel_list), startOffset)

\* step / settings.samplingFreq as a time
StepTime(step) == [ms |-> 0, frac |-> step * codeLength]

\* calculate_pseudoranges as one call: the reads and transmit times of the
\* channels in channel_list, local_time, and the travel time of every channel
calculate_pseudoranges(track_results, n, sub_frame_start, tow, curr_meas_sample, local_time, channel_list) ==
    LET inList(ch) == \E j \in 1..Len(channel_list) : channel_list[j] = ch
        read == [ch \in DOMAIN track_results |->
                    IF inList(ch)
                    THEN ChannelTransmitTime(track_results[ch], n, sub_frame_start[ch],
                                             tow[ch], curr_meas_sample)
                    ELSE NoRead]
        transmit_time == [ch \in DOMAIN track_results |-> read[ch].transmit_time]
        raised == local_time = InfTime /\ channel_list = << >>
        lt == IF local_time = InfTime /\ ~raised
              THEN LocalTimeInit(transmit_time, channel_list)
              ELSE local_time
    IN  [raised |-> raised, read |-> read, transmit_time |-> transmit_time,
         local_time |-> lt,
         pseudoranges |-> [ch \in DOMAIN track_results |->
                              [travel |-> IF transmit_time[ch] = InfTime THEN NegInfTime
                                          ELSE TimeMinus(lt, transmit_time[ch]),
                               c |-> SpeedOfLight]]]

\* Mutant: the measurement points start after the earliest subframe start
SampleStart_Earliest(firsts) == (CHOOSE m \in firsts : \A x \in firsts : m <= x) + 1

\* postNavigation lines 112-113: one sample after the latest subframe start
SampleStart(firsts) == (CHOOSE m \in firsts : \A x \in firsts : x <= m) + 1

\* postNavigation lines 114-115: one sample before the earliest last accumulation
SampleEnd(lasts) == (CHOOSE m \in lasts : \A x \in lasts : m <= x) - 1

\* postNavigation lines 110-139: measurement points, satElev, readyChnList, localTime
EnMeasure ==
    /\ en.pc = "measure"
    /\ LET firsts == {en.track_results[en.activeChnList[j]].absoluteSample[
                          en.subFrameStart[en.activeChnList[j]]] :
                             j \in 1..Len(en.activeChnList)}
           lasts == {en.track_results[en.activeChnList[j]].absoluteSample[en.n - 1] :
                             j \in 1..Len(en.activeChnList)}
           sampleStart == SampleStart(firsts)
           sampleEnd == SampleEnd(lasts)
           step == samplingFreq * settings.navSolPeriod
       IN  en' = [en EXCEPT !.pc = "epochs",
                            !.sampleStart = sampleStart, !.sampleEnd = sampleEnd,
                            !.step = step,
                            !.measNrSum = TruncDiv(sampleEnd - sampleStart, step),
                            !.satElev = [k \in 1..settings.numberOfChannels |-> Inf],
                            !.readyChnList = en.activeChnList,
                            !.localTime = InfTime]
    /\ UNCHANGED <<settings, channel, acqVars, trkVars, parVars, ndVars, pnVars, cpVars, prVars, measVars, lsVars, detVars, ppVars, epVars, itVars, frVars, uzVars>>

\* postNavigation lines 146-199, one pass of the loop: the channels above
\* the mask, their pseudoranges at currSample, then the fix, or the return
\* when three channels or fewer are left
EnEpoch ==
    /\ en.pc = "epochs"
    /\ en.i < en.measNrSum
    /\ IF \E j \in 1..Len(en.readyChnList) : ~ElevInRange(en.satElev, en.readyChnList[j])
       THEN en' = [en EXCEPT !.pc = "IndexError"]
       ELSE LET activeNow == SelectSeq(en.readyChnList,
                                       LAMBDA ch : ElevAt(en.satElev, ch) >= elevationMask)
                curr == currSample(en.sampleStart, en.step, en.i)
                r == calculate_pseudoranges(en.track_results, en.n, en.subFrameStart,
                                            en.TOW, curr, en.localTime, activeNow)
                rec == [i |-> en.i, currSample |-> curr, activeNow |-> activeNow,
                        localTimeBefore |-> en.localTime, localTime |-> r.local_time,
                        read |-> r.read, transmitTime |-> r.transmit_time,
                        rawP |-> r.pseudoranges]
            IN  IF r.raised
                THEN en' = [en EXCEPT !.pc = "ValueError"]
                ELSE IF Len(activeNow) > 3
                THEN \E fix \in FixSet(Len(activeNow)) :
                        en' = [en EXCEPT !.epochs = Append(en.epochs, rec),
                                         !.satElev = fix.el,
                                         !.localTime = TimePlus(r.local_time, StepTime(en.step)),
                                         !.i = en.i + 1]
                ELSE en' = [en EXCEPT !.pc = "return",
                                      !.epochs = Append(en.epochs, rec),
                                      !.localTime = r.local_time]
    /\ UNCHANGED <<settings, channel, acqVars, trkVars, parVars, ndVars, pnVars, cpVars, prVars, measVars, lsVars, detVars, ppVars, epVars, itVars, frVars, uzVars>>

\* Line 201
EnReturn ==
    /\ en.pc = "epochs"
    /\ en.i = en.measNrSum
    /\ en' = [en EXCEPT !.pc = "return"]
    /\ UNCHANGED <<settings, channel, acqVars, trkVars, parVars, ndVars, pnVars, cpVars, prVars, measVars, lsVars, detVars, ppVars, epVars, itVars, frVars, uzVars>>

(* ---- Channels offered to the epoch loop ---- *)

EnSeeds ==
    << [PRN |-> 3,  acquiredFreq |-> 20, codePhase |-> 0,   status |-> "T"],
       [PRN |-> 7,  acquiredFreq |-> -5, codePhase |-> 50,  status |-> "T"],
       [PRN |-> 11, acquiredFreq |-> 3,  codePhase |-> 7,   status |-> "T"],
       [PRN |-> 19, acquiredFreq |-> 0,  codePhase |-> 120, status |-> "T"],
       [PRN |-> 22, acquiredFreq |-> 1,  codePhase |-> 300, status |-> "T"] >>

\* A record long enough for every channel to be tracked to the end
EnRecord == 4 * (MaxEpochLog + 3) * samplingFreq

EnTrackResults(s, sig) ==
    [ch \in 0..(s.numberOfChannels - 1) |-> SoloTrack(s, sig, EnRecord, EnSeeds[ch + 1])]

\* Subframe starts of the channels: all at the first accumulation, all at
\* the second, or at different accumulations
SubFrameStarts(nch) ==
    {[ch \in 0..(nch - 1) |-> 0], [ch \in 0..(nch - 1) |-> 1],
     [ch \in 0..(nch - 1) |-> ch % 3]}

EnInit ==
    /\ \E n \in (MaxEpochLog - 1)..MaxEpochLog, nch \in {4, 5}, sig \in SignalSet,
          period \in {1, 2}, sfs \in SubFrameStarts(5), towLate \in 0..4 :
          LET s == [DefaultSettings EXCEPT !.msToProcess = n, !.numberOfChannels = nch,
                                           !.navSolPeriod = period]
          IN  /\ settings = s
              /\ en = [pc |-> "measure", n |-> n,
                       track_results |-> EnTrackResults(s, sig),
                       subFrameStart |-> [ch \in 0..(nch - 1) |-> sfs[ch]],
                       TOW |-> [ch \in 0..(nch - 1) |-> IF ch = towLate THEN 345606 ELSE 345600],
                       activeChnList |-> [j \in 1..nch |-> j - 1],
                       readyChnList |-> << >>, satElev |-> << >>,
                       sampleStart |-> 0, sampleEnd |-> 0, step |-> 0, measNrSum |-> 0,
                       i |-> 0, localTime |-> InfTime, epochs |-> << >>]
    /\ channel = << >>
    /\ AcqIdle
    /\ UzIdle
    /\ FrIdle
    /\ ItIdle
    /\ TrkIdle
    /\ ParIdle
    /\ NdIdle
    /\ PnIdle
    /\ CpIdle
    /\ PrIdle
    /\ MeasIdle
    /\ LsIdle
    /\ DetIdle
    /\ PpIdle
    /\ EpIdle

EnNext == EnMeasure \/ EnEpoch \/ EnReturn

SpecEpochs == EnInit /\ [][EnNext]_vars

(* ---- Claim on the local receiver time ---- *)

C21_TimeEq(a, b) == TimeNorm(a) = TimeNorm(b)

RECURSIVE C21_Times(_, _, _)
\* t plus j times d
C21_Times(t, d, j) == IF j = 0 THEN t ELSE C21_Times(TimePlus(t, d), d, j - 1)

\* The latest transmit time of the channels used in the first epoch, plus startOffset
C21_FirstLocalTime ==
    LET e == en.epochs[1]
        used == {e.activeNow[j] : j \in 1..Len(e.activeNow)}
        latest == CHOOSE ch \in used :
                     \A other \in used : TimeLE(e.transmitTime[other], e.transmitTime[ch])
    IN  TimePlus(e.transmitTime[latest], startOffset)

\* C21: local time is set once, at the first epoch, to the latest transmit
\* time of the channels used then plus startOffset; at the j-th later epoch
\* it is that value plus j * step / samplingFreq, never set anew; and every
\* pseudorange of an epoch is (localTime - transmitTime) * c with the
\* localTime of that epoch.
C21_LocalTimeOnce ==
    \A k \in 1..Len(en.epochs) :
        LET e == en.epochs[k]
        IN  /\ (e.localTimeBefore = InfTime) <=> (k = 1)
            /\ C21_TimeEq(e.localTime,
                          C21_Times(C21_FirstLocalTime, StepTime(en.step), k - 1))
            /\ \A j \in 1..Len(e.activeNow) :
                  /\ e.rawP[e.activeNow[j]].c = SpeedOfLight
                  /\ C21_TimeEq(e.rawP[e.activeNow[j]].travel,
                                TimeMinus(e.localTime, e.transmitTime[e.activeNow[j]]))

\* Three epochs were measured, the last with one channel fewer than the first
C21_Witness ==
    /\ Len(en.epochs) >= 3
    /\ Len(en.epochs[3].activeNow) < Len(en.epochs[1].activeNow)


(* ---- Claim on the accumulation index of an epoch ---- *)

\* C29: at every epoch, for every channel used in it, the index chosen by
\* calculate_pseudoranges lies between the channel's subframe start and
\* msToProcess - 2; the search never ends without finding a later
\* accumulation (index -1).
C29_IndexInsideLog ==
    \A k \in 1..Len(en.epochs) :
        \A j \in 1..Len(en.epochs[k].activeNow) :
            LET ch == en.epochs[k].activeNow[j]
                index == en.epochs[k].read[ch].index
            IN  /\ en.subFrameStart[ch] <= index
                /\ index <= settings.msToProcess - 2

\* A channel whose subframe starts after the first accumulation is measured
\* at its subframe start in one epoch and at a later accumulation in another
C29_Witness ==
    \E k1, k2 \in 1..Len(en.epochs) :
        \E ch \in 0..(settings.numberOfChannels - 1) :
            /\ en.subFrameStart[ch] > 0
            /\ \E j \in 1..Len(en.epochs[k1].activeNow) : en.epochs[k1].activeNow[j] = ch
            /\ \E j \in 1..Len(en.epochs[k2].activeNow) : en.epochs[k2].activeNow[j] = ch
            /\ en.epochs[k1].read[ch].index = en.subFrameStart[ch]
            /\ en.epochs[k2].read[ch].index > en.subFrameStart[ch]
            /\ k1 < k2

----------------------------------------------------------------------------
(* The iterative routines of the navigation chain: the Kepler equation in  *)
(* satpos, the height iteration of cart2geo and that of cart2utm.  The     *)
(* outcome of a convergence test on floating point values is either one;   *)
(* the iterate is known by the number of the pass that produced it.        *)

\* satpos.py line 80: for _ in range(10)
KeplerPasses == 10
\* cart2.py line 50: if iterations > 100
GeoBudget == 100
\* Bound: passes of the cart2utm loop that are told apart
MaxUtmPasses == 3

\* satpos lines 80-86: one pass of the Kepler loop, then the tolerance test
ItKepler ==
    /\ itr.routine = "satpos"
    /\ itr.pc = "loop"
    /\ itr.iterations < KeplerPasses
    /\ \E precise \in BOOLEAN :
          itr' = [itr EXCEPT !.iterations = itr.iterations + 1,
                           !.iterate = itr.iterations + 1,
                           !.pc = IF precise \/ itr.iterations + 1 = KeplerPasses
                                  THEN "after" ELSE "loop"]
    /\ UNCHANGED <<settings, channel, acqVars, trkVars, parVars, ndVars, pnVars, cpVars, prVars, measVars, lsVars, detVars, ppVars, epVars, enVars, frVars, uzVars>>

\* cart2.py lines 43-52: one pass of the cart2geo loop, the budget test and
\* the loop condition for the next pass
ItGeo ==
    /\ itr.routine = "cart2geo"
    /\ itr.pc = "loop"
    /\ \E again \in BOOLEAN :
          itr' = [itr EXCEPT !.iterations = itr.iterations + 1,
                           !.iterate = itr.iterations + 1,
                           !.warned = itr.iterations + 1 > GeoBudget,
                           !.pc = IF itr.iterations + 1 > GeoBudget \/ ~again
                                  THEN "after" ELSE "loop"]
    /\ UNCHANGED <<settings, channel, acqVars, trkVars, parVars, ndVars, pnVars, cpVars, prVars, measVars, lsVars, detVars, ppVars, epVars, enVars, frVars, uzVars>>

\* cart2.py lines 99-103: one pass of the cart2utm loop and the loop
\* condition for the next pass; passes beyond MaxUtmPasses are not counted
ItUtm ==
    /\ itr.routine = "cart2utm"
    /\ itr.pc = "loop"
    /\ \E again \in BOOLEAN :
          itr' = [itr EXCEPT !.iterations = IF itr.iterations < MaxUtmPasses
                                          THEN itr.iterations + 1 ELSE itr.iterations,
                           !.iterate = IF itr.iterations < MaxUtmPasses
                                       THEN itr.iterations + 1
                                       ELSE IF itr.iterate = MaxUtmPasses THEN MaxUtmPasses + 1
                                       ELSE MaxUtmPasses,
                           !.pc = IF again THEN "loop" ELSE "after"]
    /\ UNCHANGED <<settings, channel, acqVars, trkVars, parVars, ndVars, pnVars, cpVars, prVars, measVars, lsVars, detVars, ppVars, epVars, enVars, frVars, uzVars>>

\* The code after the loop uses the iterate of the last pass
ItAfter ==
    /\ itr.pc = "after"
    /\ itr' = [itr EXCEPT !.pc = "return", !.result = itr.iterate]
    /\ UNCHANGED <<settings, channel, acqVars, trkVars, parVars, ndVars, pnVars, cpVars, prVars, measVars, lsVars, detVars, ppVars, epVars, enVars, frVars, uzVars>>

Routines == {"satpos", "cart2geo", "cart2utm"}

ItInit ==
    /\ settings = DefaultSettings
    /\ \E r \in Routines :
          itr = [routine |-> r, pc |-> "loop", iterations |-> 0, iterate |-> 0,
                warned |-> FALSE, result |-> -1]
    /\ channel = << >>
    /\ AcqIdle
    /\ UzIdle
    /\ FrIdle
    /\ TrkIdle
    /\ ParIdle
    /\ NdIdle
    /\ PnIdle
    /\ CpIdle
    /\ PrIdle
    /\ MeasIdle
    /\ LsIdle
    /\ DetIdle
    /\ PpIdle
    /\ EpIdle
    /\ EnIdle

ItNext == ItKepler \/ ItGeo \/ ItUtm \/ ItAfter

\* The interpreter goes on executing a routine that can take a step
SpecIterate == ItInit /\ [][ItNext]_vars /\ WF_vars(ItNext)

\* C22: every iterative routine stops after a bounded number of passes even
\* when its convergence test never passes, and returns the last iterate: at
\* most 10 passes for the Kepler equation, at most 100 for the height
\* iteration of cart2geo, and a finite number for that of cart2utm.
C22_BoundedIterations ==
    /\ [](itr.routine = "satpos" => itr.iterations <= KeplerPasses)
    /\ [](itr.routine = "cart2geo" => itr.iterations <= GeoBudget)
    /\ [](itr.pc = "return" => itr.result = itr.iterate)
    /\ <>(itr.pc = "return")


(* ---- Claim on the status of a TrackLog ---- *)

\* Every per-ms field of channel c was assigned at every index
C23_Complete(c) ==
    \A k \in 0..(settings.msToProcess - 1) : \A f \in PerMsFields :
        <<c, f, k>> \in written

\* Channel c was skipped, is being tracked, was cut short or was never reached
C23_NotFinished(c) ==
    \/ channel[c].PRN = 0
    \/ c > channelNr
    \/ (c = channelNr /\ trkpc \in {"channel", "loop", "eof"})

\* C23: a channel has a status other than '-' only if all msToProcess
\* iterations of that channel were completed, so that every per-ms entry of
\* it holds a written value; a channel that was skipped (PRN 0), cut short
\* by the end of the stream, or never reached keeps status '-'.
C23_StatusOnlyWhenComplete ==
    trkpc # "idle" =>
        \A c \in 1..settings.numberOfChannels :
            /\ trackResults[c].status # "-" => C23_Complete(c)
            /\ C23_NotFinished(c) => trackResults[c].status = "-"

\* tracking() returned at the end of the stream with one channel tracked to
\* the end and a later one cut short after its first iteration
C23_Witness ==
    /\ trkpc = "eof"
    /\ \E c \in 1..settings.numberOfChannels :
          /\ c < channelNr
          /\ trackResults[c].status = "T"
    /\ loopCnt > 0
    /\ trackResults[channelNr].status = "-"


(* ---- Claim on the elevation mask ---- *)

\* The elevation epoch k computed for channel ch's own satellite is at
\* least elevationMask
C24_OwnElevationAbove(k, ch) ==
    \E p \in 1..Len(navSolutions[k].channels) :
        /\ navSolutions[k].channels[p] = ch
        /\ navSolutions[k].el[p] >= elevationMask

\* C24: at every epoch after the first, channel ch is kept in the epoch's
\* list if and only if the elevation computed at the preceding epoch for
\* ch's own satellite is >= elevationMask; the lookup never reads another
\* channel's elevation and never indexes outside the elevation array; at the
\* first epoch every ready channel is kept.
C24_OwnElevationMask ==
    /\ pnpc # "IndexError"
    /\ Len(navSolutions) >= 1 => navSolutions[1].channels = readyChnList
    /\ \A k \in 1..(Len(navSolutions) - 1) :
          \A i \in 1..Len(readyChnList) :
              (\E p \in 1..Len(navSolutions[k + 1].channels) :
                    navSolutions[k + 1].channels[p] = readyChnList[i])
                <=> C24_OwnElevationAbove(k, readyChnList[i])


(* ---- Claim on the bit windows of ephemeris decoding ---- *)

\* The thresholded sum of I_P_InputBits[a .. b], as 0 or 1
C25_BitOver(a, b) == IF SumRange(nd.I_P_InputBits, a + 1, b + 1) > 0 THEN 1 ELSE 0

\* C25: the 20-ms windows summed into navigation bits for ephemeris
\* decoding have the bit boundaries of the parity verification of the
\* accepted preamble: the D30* bit is the sum of I_P[subFrameStart-20 ..
\* subFrameStart-1], bit 1 of the TLM word the sum of I_P[subFrameStart ..
\* subFrameStart+19], and the j-th decoded bit covers
\* I_P[subFrameStart+20*(j-1) .. subFrameStart+20*j-1].
C25_SameBitBoundaries ==
    (nd.pc = "return" /\ nd.eph = "decoded") =>
        /\ nd.navBitsFrom = nd.subFrameStart - BitLen
        /\ \A j \in 0..1500 :
              nd.navBits[j + 1] = C25_BitOver(nd.subFrameStart + BitLen * (j - 1),
                                              nd.subFrameStart + BitLen * j - 1)
        /\ \A j \in 0..61 :
              (IF bits_sum(nd.I_P_InputBits, nd.subFrameStart)[j + 1] > 0 THEN 1 ELSE 0)
                 = C25_BitOver(nd.subFrameStart + BitLen * (j - 2),
                               nd.subFrameStart + BitLen * (j - 1) - 1)


(* ---- Claim on the record read for ephemeris decoding ---- *)

\* 36000 ms in the source: six subframes
C26_MinMs == 6 * SubframeMs

\* C26: for every msToProcess >= 36000 and every I_P record of that length,
\* whenever NAVdecoding accepts a subFrameStart, the 1501 bits it then reads
\* lie inside the record, so that neither the reshape nor ephemeris()
\* raises; a preamble found too late to be followed by five subframes does
\* not abort navigation.
C26_DecodeWindowInsideRecord ==
    (settings.msToProcess >= C26_MinMs /\ nd.pc # "idle" /\ nd.subFrameStart # Inf) =>
        /\ NavBitsTo(nd.subFrameStart) <= Len(nd.I_P_InputBits)
        /\ nd.pc # "ValueError"

----------------------------------------------------------------------------
(* The data file as postProcessing reads it for acquisition and as         *)
(* tracking reads it for a channel that acquisition found at codePhase:    *)
(* byte positions of the seeks and reads and the size of a sample.         *)

\* Bound: settings.skipNumberOfBytes
MaxSkipBytes == 2

\* postProcessing line 84: fid.seek(data_adapt_coeff * settings.skipNumberOfBytes, 0)
acq_seek(s) == dataAdaptCoeff(s) * s.skipNumberOfBytes

\* postProcessing lines 96-103: itemsize of int8, int16, float32; 0 stands
\* for the ValueError of an unsupported dataType
acq_itemsize(s) ==
    IF s.dataType = "schar" THEN 1
    ELSE IF s.dataType = "short" THEN 2
    ELSE IF s.dataType = "float" THEN 4
    ELSE 0

\* postProcessing lines 90-93: num_samples, with code_len = 42
acq_num_samples(s) == dataAdaptCoeff(s) * 42 * samplingFreq

\* tracking line 190: itemsize of np.int16 if dataType == 'int16' else np.int8
trk_itemsize(s) == IF s.dataType = "int16" THEN 2 ELSE 1

\* postProcessing lines 79-84
FrAcqSeek ==
    /\ fr.pc = "open"
    /\ fr' = [fr EXCEPT !.pc = "acquisition", !.pos = acq_seek(settings)]
    /\ UNCHANGED <<settings, channel, acqVars, trkVars, parVars, ndVars, pnVars, cpVars, prVars, measVars, lsVars, detVars, ppVars, epVars, enVars, itVars, uzVars>>

\* postProcessing lines 88-106: np.fromfile of num_samples elements of the
\* dtype that dataType names, from the current position
FrAcqRead ==
    /\ fr.pc = "acquisition"
    /\ IF acq_itemsize(settings) = 0
       THEN fr' = [fr EXCEPT !.pc = "ValueError"]
       ELSE fr' = [fr EXCEPT !.pc = "tracking",
                             !.acqStart = fr.pos,
                             !.acqItem = acq_itemsize(settings),
                             !.pos = fr.pos + acq_num_samples(settings) * acq_itemsize(settings)]
    /\ UNCHANGED <<settings, channel, acqVars, trkVars, parVars, ndVars, pnVars, cpVars, prVars, measVars, lsVars, detVars, ppVars, epVars, enVars, itVars, uzVars>>

\* tracking lines 131-161: seek to the channel's code phase
FrTrkSeek ==
    /\ fr.pc = "tracking"
    /\ fr' = [fr EXCEPT !.pc = "loop",
                        !.pos = seek_offset(settings, fr.ch),
                        !.trkStart = seek_offset(settings, fr.ch),
                        !.loc = InitLoc(fr.ch)]
    /\ UNCHANGED <<settings, channel, acqVars, trkVars, parVars, ndVars, pnVars, cpVars, prVars, measVars, lsVars, detVars, ppVars, epVars, enVars, itVars, uzVars>>

\* tracking lines 172-190, one iteration: absoluteSample, the block read and
\* the dtype its bytes are taken as; the loops are left at their start values
FrTrkRead ==
    /\ fr.pc = "loop"
    /\ Len(fr.reads) < settings.msToProcess
    /\ LET blk == blksize(fr.loc)
           nb == num_bytes(settings, blk)
       IN  fr' = [fr EXCEPT !.pos = fr.pos + nb,
                            !.reads = Append(fr.reads,
                                [from |-> fr.pos, bytes |-> nb, blksize |-> blk,
                                 itemsize |-> trk_itemsize(settings),
                                 absoluteSample |-> AbsoluteSample(settings, fr.pos)])]
    /\ UNCHANGED <<settings, channel, acqVars, trkVars, parVars, ndVars, pnVars, cpVars, prVars, measVars, lsVars, detVars, ppVars, epVars, enVars, itVars, uzVars>>

FrInit ==
    /\ \E skip \in 0..MaxSkipBytes, ft \in {1, 2},
          dt \in {"schar", "short", "float", "int16"} :
          settings = [DefaultSettings EXCEPT !.skipNumberOfBytes = skip, !.fileType = ft,
                                             !.dataType = dt, !.msToProcess = 2]
    /\ \E cph \in {0, 1, 50} :
          fr = [pc |-> "open", pos |-> 0, acqStart |-> 0, acqItem |-> 0, trkStart |-> 0,
                ch |-> [PRN |-> 7, acquiredFreq |-> -5, codePhase |-> cph, status |-> "T"],
                loc |-> InitLoc(channel_template), reads |-> << >>]
    /\ channel = << >>
    /\ AcqIdle
    /\ UzIdle
    /\ TrkIdle
    /\ ParIdle
    /\ NdIdle
    /\ PnIdle
    /\ CpIdle
    /\ PrIdle
    /\ MeasIdle
    /\ LsIdle
    /\ DetIdle
    /\ PpIdle
    /\ EpIdle
    /\ EnIdle
    /\ ItIdle

FrNext == FrAcqSeek \/ FrAcqRead \/ FrTrkSeek \/ FrTrkRead

SpecFile == FrInit /\ [][FrNext]_vars

\* C27: acquisition and tracking place the start of the record at the same
\* byte: for every skipNumberOfBytes and both file types the first sample
\* tracking reads for a channel is the sample at index codePhase of the
\* window acquisition searched, and it starts on an I/Q pair boundary.
C27_SameRecordStart ==
    fr.pc = "loop" =>
        /\ fr.trkStart = fr.acqStart + fr.ch.codePhase * dataAdaptCoeff(settings) * fr.acqItem
        /\ settings.fileType = 2 => fr.trkStart % (2 * fr.acqItem) = 0

\* C28: for every dataType that acquisition accepts, tracking reads the same
\* number of bytes per sample and the same sample type as acquisition did,
\* so that blksize samples are consumed per iteration and absoluteSample
\* counts samples, not bytes (for a read that starts on a whole sample).
C28_SameSampleSize ==
    \A k \in 1..Len(fr.reads) :
        LET r == fr.reads[k]
        IN  /\ r.itemsize = fr.acqItem
            /\ r.bytes = r.blksize * dataAdaptCoeff(settings) * fr.acqItem
            /\ r.from % (dataAdaptCoeff(settings) * fr.acqItem) = 0
                  => r.absoluteSample * dataAdaptCoeff(settings) * fr.acqItem = r.from

----------------------------------------------------------------------------
(* find_utm_zone.  Latitude and longitude are held in half degrees, so     *)
(* that values between whole degrees occur; the limits and the zone width  *)
(* of the source are multiplied by two accordingly.                        *)

\* Half degrees per degree
Deg == 2

\* findUtmZone.py lines 39-66: ValueError outside the limits, else the zone
find_utm_zone(latitude, longitude) ==
    IF longitude > 180 * Deg \/ longitude < -180 * Deg
    THEN [raised |-> "ValueError", utm_zone |-> 0]
    ELSE IF latitude > 84 * Deg \/ latitude < -80 * Deg
    THEN [raised |-> "ValueError", utm_zone |-> 0]
    ELSE LET zone == TruncDiv(180 * Deg + longitude, 6 * Deg) + 1
         IN  [raised |-> "no",
              utm_zone |->
                 IF latitude > 72 * Deg
                 THEN IF 0 <= longitude /\ longitude < 9 * Deg THEN 31
                      ELSE IF 9 * Deg <= longitude /\ longitude < 21 * Deg THEN 33
                      ELSE IF 21 * Deg <= longitude /\ longitude < 33 * Deg THEN 35
                      ELSE IF 33 * Deg <= longitude /\ longitude < 42 * Deg THEN 37
                      ELSE zone
                 ELSE IF 56 * Deg <= latitude /\ latitude < 64 * Deg
                 THEN IF 3 * Deg <= longitude /\ longitude < 12 * Deg THEN 32 ELSE zone
                 ELSE zone]

UzCall ==
    /\ uz.pc = "call"
    /\ uz' = [uz EXCEPT !.pc = "return",
                        !.result = find_utm_zone(uz.latitude, uz.longitude)]
    /\ UNCHANGED <<settings, channel, acqVars, trkVars, parVars, ndVars, pnVars, cpVars, prVars, measVars, lsVars, detVars, ppVars, epVars, enVars, itVars, frVars>>

\* Latitudes around the limits and the bands with corrected zones
Latitudes ==
    {-81 * Deg, -80 * Deg - 1, -80 * Deg, 0, 56 * Deg - 1, 56 * Deg, 64 * Deg - 1, 64 * Deg,
     72 * Deg, 72 * Deg + 1, 84 * Deg, 84 * Deg + 1, 90 * Deg}

Longitudes == (-181 * Deg)..(181 * Deg)

UzInit ==
    /\ settings = DefaultSettings
    /\ \E lat \in Latitudes, lon \in Longitudes :
          uz = [pc |-> "call", latitude |-> lat, longitude |-> lon,
                result |-> [raised |-> "no", utm_zone |-> 0]]
    /\ channel = << >>
    /\ AcqIdle
    /\ TrkIdle
    /\ ParIdle
    /\ NdIdle
    /\ PnIdle
    /\ CpIdle
    /\ PrIdle
    /\ MeasIdle
    /\ LsIdle
    /\ DetIdle
    /\ PpIdle
    /\ EpIdle
    /\ EnIdle
    /\ ItIdle
    /\ FrIdle

UzNext == UzCall

SpecUtmZone == UzInit /\ [][UzNext]_vars

\* C30: for every latitude in [-80, 84] and every longitude in [-180, 180],
\* bounds included, find_utm_zone returns a zone number in 1..60; for a
\* latitude or longitude outside these bounds it raises ValueError.
C30_ZoneInRange ==
    uz.pc = "return" =>
        IF /\ -80 * Deg <= uz.latitude /\ uz.latitude <= 84 * Deg
           /\ -180 * Deg <= uz.longitude /\ uz.longitude <= 180 * Deg
        THEN uz.result.raised = "no" /\ uz.result.utm_zone \in 1..60
        ELSE uz.result.raised = "ValueError"

============================================================================
